---- MODULE Spec2Model ----
(***************************************************************************)
(* Model of the value-serialization core of scylla-cql                     *)
(* (scylla-cql/src/types/serialize/value.rs): the SerializeCql capability  *)
(* of the built-in Rust types and of the dynamic CqlValue, driven against  *)
(* a ColumnType descriptor into a CellWriter over a caller-owned buffer.   *)
(*                                                                         *)
(* A byte is a number in 0..255 and a buffer (Vec<u8>) is a sequence of    *)
(* bytes.  A CellWriter<'b> wraps `&'b mut Vec<u8>`; it is represented by  *)
(* the contents of the buffer it appends to.  serialize returns            *)
(* Result<WrittenCellProof, SerializationError>; an outcome of a call is   *)
(* the record [buf |-> contents of the buffer after the call, res |-> the  *)
(* proof or the error].                                                    *)
(***************************************************************************)
EXTENDS Integers, Sequences, FiniteSets, TLC

VARIABLES buf, before, value, typ, result, pc

vars == <<buf, before, value, typ, result, pc>>

(***************************************************************************)
(* Bounds of the model.                                                    *)
(***************************************************************************)
\* longest Vec<i32> and dynamic list that is enumerated
MaxElems == 3
\* longest enumerated list of UDT fields, of map pairs and of other elements
MaxFields == 2
\* the integers -MaxInt..MaxInt are enumerated as scalar payloads
MaxInt == 1

\* i32::MAX, the limit of `len.try_into()` into `element_count: i32`
I32Max == 2147483647

(***************************************************************************)
(* Integers and bytes.  An integer of the program is a mathematical        *)
(* integer; to_be_bytes is its big-endian two's complement encoding in w   *)
(* bytes.  Bytes above the 4th are the sign extension (the model's numbers *)
(* are within 32 bits).                                                    *)
(***************************************************************************)
ByteAt(x, k) ==
    IF k >= 4 THEN (IF x < 0 THEN 255 ELSE 0)
    ELSE (x \div (256 ^ k)) % 256

to_be_bytes(x, w) == [i \in 1..w |-> ByteAt(x, w - i)]

\* i32::from_be_bytes
RECURSIVE from_be_acc(_, _)
from_be_acc(acc, bytes) ==
    IF bytes = <<>> THEN acc
    ELSE from_be_acc(acc * 256 + Head(bytes), Tail(bytes))

from_be_bytes(bytes) ==
    IF bytes = <<>> THEN 0
    ELSE from_be_acc(IF Head(bytes) >= 128 THEN Head(bytes) - 256 ELSE Head(bytes),
                     Tail(bytes))

\* A 64-bit quantity (usize, i64) that may exceed 32 bits is the record
\* [m, shift] standing for m * 2^shift (1 << 33 is Wide(1, 33)).
Wide(m, shift) == [m |-> m, shift |-> shift]

\* `x.try_into()` into an i32 succeeds
FitsI32(x) ==
    \/ x.m = 0
    \/ /\ x.shift <= 30
       /\ x.m <= I32Max \div (2 ^ x.shift)
       /\ x.m >= (-I32Max) \div (2 ^ x.shift)

\* the i32 it converts to
AsI32(x) == IF x.m = 0 THEN 0 ELSE x.m * (2 ^ x.shift)

(***************************************************************************)
(* ColumnType (frame::response::result::ColumnType), as used by value.rs.  *)
(***************************************************************************)
NativeKinds == {"Ascii", "Boolean", "Blob", "Counter", "Date", "Decimal", "Double",
                "Duration", "Float", "Int", "BigInt", "Text", "Timestamp", "Inet",
                "SmallInt", "TinyInt", "Time", "Timeuuid", "Uuid", "Varint"}

Native(k) == [t |-> k]
ListOf(el) == [t |-> "List", el |-> el]
SetOf(el) == [t |-> "Set", el |-> el]
MapOf(k, v) == [t |-> "Map", k |-> k, v |-> v]
TupleOf(els) == [t |-> "Tuple", els |-> els]
UdtOf(ks, name, fields) ==
    [t |-> "UserDefinedType", keyspace |-> ks, type_name |-> name, field_types |-> fields]
Custom(name) == [t |-> "Custom", name |-> name]

\* ColumnType::supports_special_empty_value
supports_special_empty_value(ct) ==
    ct.t \notin {"Counter", "Duration", "List", "Map", "Set", "UserDefinedType", "Custom"}

(***************************************************************************)
(* CellWriter / CellValueBuilder (types::serialize::writers).              *)
(* A cell is a 4-byte big-endian signed length followed by that many bytes *)
(* (or the length alone when it is -1, null, or -2, unset).  A value       *)
(* builder reserves the length field of its cell, lets sub-writers and     *)
(* append_bytes extend the same buffer, and writes the accumulated length  *)
(* into the reserved field when it is finished.                            *)
(***************************************************************************)
\* what the reserved length field holds until finish() overwrites it
LenPlaceholder == to_be_bytes(0, 4)

set_null(w) == w \o to_be_bytes(-1, 4)

set_unset(w) == w \o to_be_bytes(-2, 4)

\* Result<WrittenCellProof, CellOverflowError>
set_value(w, contents) ==
    IF Len(contents) > I32Max
    THEN [buf |-> w, overflow |-> TRUE]
    ELSE [buf |-> w \o to_be_bytes(Len(contents), 4) \o contents, overflow |-> FALSE]

into_value_builder(w) == [buf |-> w \o LenPlaceholder, starting_pos |-> Len(w)]

append_bytes(builder, bytes) == [builder EXCEPT !.buf = @ \o bytes]

make_sub_writer(builder) == builder.buf

\* the builder after a sub-writer (or a serializer driving it) left `b` in the buffer
builder_after(builder, b) == [builder EXCEPT !.buf = b]

finish(builder) ==
    LET n == Len(builder.buf) - builder.starting_pos - 4
    IN  IF n > I32Max
        THEN [buf |-> builder.buf, overflow |-> TRUE]
        ELSE [buf |-> SubSeq(builder.buf, 1, builder.starting_pos)
                        \o to_be_bytes(n, 4)
                        \o SubSeq(builder.buf, builder.starting_pos + 5, Len(builder.buf)),
              overflow |-> FALSE]

(***************************************************************************)
(* Results and errors.                                                     *)
(***************************************************************************)
Proof == [ok |-> TRUE]

Ok(w) == [buf |-> w, res |-> Proof]

Err(w, err) == [buf |-> w, res |-> err]

\* a call that aborts (an `unwrap()` on an Err) instead of returning
Panic(w) == [buf |-> w, res |-> [ok |-> FALSE, cls |-> "panic"]]

mk_typck_err_named(name, got, kind) ==
    [ok |-> FALSE, cls |-> "BuiltinTypeCheckError",
     rust_name |-> name, got |-> got, kind |-> kind]

mk_ser_err_named(name, got, kind) ==
    [ok |-> FALSE, cls |-> "BuiltinSerializationError",
     rust_name |-> name, got |-> got, kind |-> kind]

adapter_err(kind) ==
    [ok |-> FALSE, cls |-> "ValueToSerializeCqlAdapterError", kind |-> kind]

\* BuiltinTypeCheckErrorKind
MismatchedType(expected) == [k |-> "MismatchedType", expected |-> expected]
NotEmptyable == [k |-> "NotEmptyable"]
CustomTypeUnsupported == [k |-> "CustomTypeUnsupported"]
NotSetOrList == [k |-> "SetOrListError", e |-> [k |-> "NotSetOrList"]]
NotMap == [k |-> "MapError", e |-> [k |-> "NotMap"]]
NotTuple == [k |-> "TupleError", e |-> [k |-> "NotTuple"]]
WrongElementCount(actual, asked_for) ==
    [k |-> "TupleError",
     e |-> [k |-> "WrongElementCount", actual |-> actual, asked_for |-> asked_for]]
NotUdt == [k |-> "UdtError", e |-> [k |-> "NotUdt"]]
NameMismatch(keyspace, type_name) ==
    [k |-> "UdtError",
     e |-> [k |-> "NameMismatch", keyspace |-> keyspace, type_name |-> type_name]]
NoSuchFieldInUdt(field_name) ==
    [k |-> "UdtError", e |-> [k |-> "NoSuchFieldInUdt", field_name |-> field_name]]

\* BuiltinSerializationErrorKind
SizeOverflow == [k |-> "SizeOverflow"]
ValueOverflow == [k |-> "ValueOverflow"]
SetOrListTooManyElements == [k |-> "SetOrListError", e |-> [k |-> "TooManyElements"]]
SetOrListElementSerializationFailed(err) ==
    [k |-> "SetOrListError", e |-> [k |-> "ElementSerializationFailed", err |-> err]]
MapTooManyElements == [k |-> "MapError", e |-> [k |-> "TooManyElements"]]
KeySerializationFailed(err) ==
    [k |-> "MapError", e |-> [k |-> "KeySerializationFailed", err |-> err]]
ValueSerializationFailed(err) ==
    [k |-> "MapError", e |-> [k |-> "ValueSerializationFailed", err |-> err]]
ValueMissingForUdtField(field_name) ==
    [k |-> "UdtError", e |-> [k |-> "ValueMissingForUdtField", field_name |-> field_name]]
FieldNameMismatch(rust_field_name, db_field_name) ==
    [k |-> "UdtError", e |-> [k |-> "FieldNameMismatch",
                              rust_field_name |-> rust_field_name,
                              db_field_name |-> db_field_name]]
TupleElementSerializationFailed(index, err) ==
    [k |-> "TupleError",
     e |-> [k |-> "ElementSerializationFailed", index |-> index, err |-> err]]
FieldSerializationFailed(field_name, err) ==
    [k |-> "UdtError",
     e |-> [k |-> "FieldSerializationFailed", field_name |-> field_name, err |-> err]]

(***************************************************************************)
(* Rust values.  A value is a record tagged by `r`, its Rust type.         *)
(* Numbers carry their value in `v`; f32/f64 carry their IEEE-754 bits     *)
(* read as a two's complement integer; a bool is in `flag`; strings and    *)
(* blobs carry their `bytes`, a Uuid its 16 bytes, an IpAddr its 4 (V4) or *)
(* 16 (V6) octets; a wrapper holds the wrapped value in `inner`.           *)
(***************************************************************************)
CqlValueName == "scylla_cql::frame::response::result::CqlValue"

\* std::any::type_name::<Self>() of the types with an exact_type_check
NativeRust == {"i8", "i16", "i32", "i64", "BigDecimal", "CqlDate", "CqlTimestamp",
               "CqlTime", "bool", "f32", "f64", "Uuid", "BigInt", "&str", "Vec<u8>",
               "&[u8]", "IpAddr", "String", "Counter", "CqlDuration"}

type_name(r) ==
    CASE r = "String" -> "alloc::string::String"
      [] r = "Vec<u8>" -> "alloc::vec::Vec<u8>"
      [] r = "Uuid" -> "uuid::Uuid"
      [] r = "BigInt" -> "num_bigint::bigint::BigInt"
      [] r = "BigDecimal" -> "bigdecimal::BigDecimal"
      [] r = "IpAddr" -> "core::net::ip_addr::IpAddr"
      [] r = "Counter" -> "scylla_cql::frame::value::Counter"
      [] r = "CqlDate" -> "scylla_cql::frame::value::CqlDate"
      [] r = "CqlTime" -> "scylla_cql::frame::value::CqlTime"
      [] r = "CqlTimestamp" -> "scylla_cql::frame::value::CqlTimestamp"
      [] r = "CqlDuration" -> "scylla_cql::frame::value::CqlDuration"
      [] r = "CqlValue" -> CqlValueName
      [] OTHER -> r

\* the `$cql` list each impl hands to exact_type_check!
exact_types(r) ==
    CASE r = "i8" -> <<Native("TinyInt")>>
      [] r = "i16" -> <<Native("SmallInt")>>
      [] r = "i32" -> <<Native("Int")>>
      [] r = "i64" -> <<Native("BigInt")>>
      [] r = "BigDecimal" -> <<Native("Decimal")>>
      [] r = "CqlDate" -> <<Native("Date")>>
      [] r = "CqlTimestamp" -> <<Native("Timestamp")>>
      [] r = "CqlTime" -> <<Native("Time")>>
      [] r = "bool" -> <<Native("Boolean")>>
      [] r = "f32" -> <<Native("Float")>>
      [] r = "f64" -> <<Native("Double")>>
      [] r = "Uuid" -> <<Native("Uuid"), Native("Timeuuid")>>
      [] r = "BigInt" -> <<Native("Varint")>>
      [] r \in {"&str", "String"} -> <<Native("Ascii"), Native("Text")>>
      [] r \in {"Vec<u8>", "&[u8]"} -> <<Native("Blob")>>
      [] r = "IpAddr" -> <<Native("Inet")>>
      [] r = "Counter" -> <<Native("Counter")>>
      [] r = "CqlDuration" -> <<Native("Duration")>>

Range(s) == {s[i] : i \in DOMAIN s}

\* exact_type_check!: the error it returns, or Proof when the type is accepted
\* exact_type_check! that lets a 32-bit integer satisfy a 64-bit descriptor
exact_type_check_widening(rust_name, ct, expected) ==
    IF ct \in Range(expected) \/ (expected = <<Native("Int")>> /\ ct = Native("BigInt"))
    THEN Proof
    ELSE mk_typck_err_named(rust_name, ct, MismatchedType(expected))

exact_type_check(rust_name, ct, expected) ==
    IF ct \in Range(expected)
    THEN Proof
    ELSE mk_typck_err_named(rust_name, ct, MismatchedType(expected))

\* BigInt::to_signed_bytes_be: the shortest two's complement encoding
to_signed_bytes_be(x) ==
    to_be_bytes(x, IF x >= -128 /\ x <= 127 THEN 1
                   ELSE IF x >= -32768 /\ x <= 32767 THEN 2
                   ELSE IF x >= -8388608 /\ x <= 8388607 THEN 3
                   ELSE 4)

\* frame::types::vint_encode of a signed number: zig-zag, then the unsigned
\* vint whose first byte carries as many leading 1 bits as bytes follow
zigzag(x) == IF x >= 0 THEN 2 * x ELSE -2 * x - 1

vint_extra_bytes(u) ==
    IF u < 128 THEN 0 ELSE IF u < 16384 THEN 1 ELSE IF u < 2097152 THEN 2 ELSE 3

vint_encode(x) ==
    LET u == zigzag(x)
        n == vint_extra_bytes(u)
        first == (256 - 2 ^ (8 - n)) + (u \div (256 ^ n))
    IN  <<first>> \o [i \in 1..n |-> (u \div (256 ^ (n - i))) % 256]

\* the bytes an impl hands to set_value / append_bytes
\* native_bytes with `to_le_bytes` in place of `to_be_bytes`
native_bytes_le(me) ==
    LET le(x, w) == [i \in 1..w |-> ByteAt(x, i - 1)]
    IN  CASE me.r = "i8" -> le(me.v, 1)
          [] me.r = "i16" -> le(me.v, 2)
          [] me.r \in {"i32", "CqlDate", "f32"} -> le(me.v, 4)
          [] me.r \in {"i64", "CqlTimestamp", "CqlTime", "Counter", "f64"} -> le(me.v, 8)
          [] me.r = "bool" -> <<IF me.flag THEN 1 ELSE 0>>
          [] me.r = "BigInt" -> to_signed_bytes_be(me.v)
          [] me.r = "BigDecimal" -> le(AsI32(me.scale), 4) \o to_signed_bytes_be(me.v)
          [] me.r = "CqlDuration" ->
                vint_encode(me.months) \o vint_encode(me.days) \o vint_encode(me.nanoseconds)
          [] OTHER -> me.bytes

native_bytes(me) ==
    CASE me.r = "i8" -> to_be_bytes(me.v, 1)
      [] me.r = "i16" -> to_be_bytes(me.v, 2)
      [] me.r \in {"i32", "CqlDate", "f32"} -> to_be_bytes(me.v, 4)
      [] me.r \in {"i64", "CqlTimestamp", "CqlTime", "Counter", "f64"} -> to_be_bytes(me.v, 8)
      [] me.r = "bool" -> <<IF me.flag THEN 1 ELSE 0>>
      [] me.r = "BigInt" -> to_signed_bytes_be(me.v)
      [] me.r = "BigDecimal" -> to_be_bytes(AsI32(me.scale), 4) \o to_signed_bytes_be(me.v)
      [] me.r = "CqlDuration" ->
            vint_encode(me.months) \o vint_encode(me.days) \o vint_encode(me.nanoseconds)
      [] OTHER -> me.bytes

\* impls that map a CellOverflowError to SizeOverflow instead of unwrapping
MapsOverflow == {"BigInt", "&str", "Vec<u8>", "&[u8]", "String"}

\* impl SerializeCql for BigDecimal
serialize_BigDecimal(me, ct, w) ==
    LET chk == exact_type_check(type_name(me.r), ct, exact_types(me.r))
        builder == into_value_builder(w)
        fin == finish(append_bytes(builder, native_bytes(me)))
    IN  IF ~chk.ok THEN Err(w, chk)
        ELSE IF ~FitsI32(me.scale)
        THEN Err(builder.buf, mk_ser_err_named(type_name(me.r), ct, ValueOverflow))
        ELSE IF fin.overflow
        THEN Err(fin.buf, mk_ser_err_named(type_name(me.r), ct, SizeOverflow))
        ELSE Ok(fin.buf)

\* impl SerializeCql for i8, i16, i32, i64, CqlDate, CqlTimestamp, CqlTime, bool,
\* f32, f64, Uuid, BigInt, &str, Vec<u8>, &[u8], IpAddr, String, Counter, CqlDuration
serialize_native(me, ct, w) ==
    LET chk == exact_type_check(type_name(me.r), ct, exact_types(me.r))
        out == set_value(w, native_bytes(me))
    IN  IF ~chk.ok THEN Err(w, chk)
        ELSE IF ~out.overflow THEN Ok(out.buf)
        ELSE IF me.r \in MapsOverflow
        THEN Err(out.buf, mk_ser_err_named(type_name(me.r), ct, SizeOverflow))
        ELSE Panic(out.buf)

(***************************************************************************)
(* The SerializeCql impls.  Serialize dispatches on the Rust type of the   *)
(* value, as the compiler does.                                            *)
(***************************************************************************)
RECURSIVE Serialize(_, _, _)
RECURSIVE serialize_cql_value(_, _, _)

IsPanic(res) == ~res.ok /\ res.cls = "panic"

\* impl SerializeCql for Option<T>
\* Option<T> that checks the descriptor before writing null
serialize_Option_checked(me, ct, w) ==
    IF me.r = "Some" THEN Serialize(me.inner, ct, w)
    ELSE IF ct.t = "Custom"
    THEN Err(w, mk_typck_err_named("core::option::Option<T>", ct, CustomTypeUnsupported))
    ELSE Ok(set_null(w))

serialize_Option(me, ct, w) ==
    IF me.r = "Some" THEN Serialize(me.inner, ct, w) ELSE Ok(set_null(w))

\* impl SerializeCql for Unset
serialize_Unset(me, ct, w) == Ok(set_unset(w))

\* impl SerializeCql for MaybeUnset<V>
serialize_MaybeUnset(me, ct, w) ==
    IF me.r = "MaybeUnset::Set" THEN Serialize(me.inner, ct, w) ELSE Ok(set_unset(w))

\* a reference reporting the inner value's error under its own type name
serialize_Ref_renamed(me, ct, w) ==
    LET out == Serialize(me.inner, ct, w)
    IN  IF out.res.ok \/ IsPanic(out.res) \/ "rust_name" \notin DOMAIN out.res
        THEN out
        ELSE Err(out.buf, [out.res EXCEPT !.rust_name = "&T"])

\* impl SerializeCql for &T, for Box<T>
serialize_Ref(me, ct, w) == Serialize(me.inner, ct, w)

\* The items an iterator yields: `elems` repeated 2^shift times
\* (`[Unset; 1 << 33]` is <<Unset>> with shift 33; a Vec has shift 0).
Iter(elems, shift) == [elems |-> elems, shift |-> shift]
IterLen(iter) == Wide(Len(iter.elems), iter.shift)
IterCount(iter) == Len(iter.elems) * (2 ^ iter.shift)
IterAt(iter, i) == iter.elems[((i - 1) % Len(iter.elems)) + 1]

\* an element loop that goes on serializing after an element failed
RECURSIVE sequence_loop_keeps_going(_, _, _, _)
sequence_loop_keeps_going(iter, i, elt, builder) ==
    IF i > IterCount(iter) THEN [builder |-> builder, res |-> Proof]
    ELSE LET out == Serialize(IterAt(iter, i), elt, make_sub_writer(builder))
             rest == sequence_loop_keeps_going(iter, i + 1, elt,
                                               builder_after(builder, out.buf))
         IN  IF out.res.ok THEN rest
             ELSE [builder |-> rest.builder, res |-> out.res]

\* `for el in iter { T::serialize(el, elt, builder.make_sub_writer())...? }`:
\* the builder when the loop is left and the error that left it, if any
RECURSIVE sequence_loop(_, _, _, _)
sequence_loop(iter, i, elt, builder) ==
    IF i > IterCount(iter) THEN [builder |-> builder, res |-> Proof]
    ELSE LET out == Serialize(IterAt(iter, i), elt, make_sub_writer(builder))
         IN  IF out.res.ok
             THEN sequence_loop(iter, i + 1, elt, builder_after(builder, out.buf))
             ELSE [builder |-> builder_after(builder, out.buf), res |-> out.res]

\* serialize_sequence with the element count written as an i16
serialize_sequence_count16(rust_name, len, iter, ct, w) ==
    IF ct.t \notin {"List", "Set"}
    THEN Err(w, mk_typck_err_named(rust_name, ct, NotSetOrList))
    ELSE LET builder == into_value_builder(w)
         IN  IF ~FitsI32(len)
             THEN Err(builder.buf, mk_ser_err_named(rust_name, ct, SetOrListTooManyElements))
             ELSE LET loop == sequence_loop(iter, 1, ct.el,
                                  append_bytes(builder, to_be_bytes(AsI32(len), 2)))
                      fin == finish(loop.builder)
                  IN  IF ~loop.res.ok
                      THEN Err(loop.builder.buf,
                               mk_ser_err_named(rust_name, ct,
                                   SetOrListElementSerializationFailed(loop.res)))
                      ELSE Ok(fin.buf)

\* serialize_sequence without the element count
serialize_sequence_no_count(rust_name, len, iter, ct, w) ==
    IF ct.t \notin {"List", "Set"}
    THEN Err(w, mk_typck_err_named(rust_name, ct, NotSetOrList))
    ELSE LET builder == into_value_builder(w)
         IN  IF ~FitsI32(len)
             THEN Err(builder.buf, mk_ser_err_named(rust_name, ct, SetOrListTooManyElements))
             ELSE LET loop == sequence_loop(iter, 1, ct.el, builder)
                      fin == finish(loop.builder)
                  IN  IF ~loop.res.ok
                      THEN Err(loop.builder.buf,
                               mk_ser_err_named(rust_name, ct,
                                   SetOrListElementSerializationFailed(loop.res)))
                      ELSE Ok(fin.buf)

\* serialize_sequence that makes the value builder before it looks at the type
serialize_sequence_late_typck(rust_name, len, iter, ct, w) ==
    LET builder == into_value_builder(w)
    IN  IF ct.t \notin {"List", "Set"}
        THEN Err(builder.buf, mk_typck_err_named(rust_name, ct, NotSetOrList))
        ELSE IF ~FitsI32(len)
        THEN Err(builder.buf, mk_ser_err_named(rust_name, ct, SetOrListTooManyElements))
        ELSE LET loop == sequence_loop(iter, 1, ct.el,
                             append_bytes(builder, to_be_bytes(AsI32(len), 4)))
                 fin == finish(loop.builder)
             IN  IF ~loop.res.ok
                 THEN Err(loop.builder.buf,
                          mk_ser_err_named(rust_name, ct,
                              SetOrListElementSerializationFailed(loop.res)))
                 ELSE Ok(fin.buf)

\* serialize_sequence with the element count written before `len.try_into()`
\* is checked
serialize_sequence_count_first(rust_name, len, iter, ct, w) ==
    IF ct.t \notin {"List", "Set"}
    THEN Err(w, mk_typck_err_named(rust_name, ct, NotSetOrList))
    ELSE LET builder == append_bytes(into_value_builder(w),
                                     to_be_bytes(IF FitsI32(len) THEN AsI32(len) ELSE 0, 4))
         IN  IF ~FitsI32(len)
             THEN Err(builder.buf, mk_ser_err_named(rust_name, ct, SetOrListTooManyElements))
             ELSE LET loop == sequence_loop(iter, 1, ct.el, builder)
                      fin == finish(loop.builder)
                  IN  IF ~loop.res.ok
                      THEN Err(loop.builder.buf,
                               mk_ser_err_named(rust_name, ct,
                                   SetOrListElementSerializationFailed(loop.res)))
                      ELSE Ok(fin.buf)

\* serialize_sequence that hands the buffer back as it got it when an
\* element fails
serialize_sequence_rolled_back(rust_name, len, iter, ct, w) ==
    IF ct.t \notin {"List", "Set"}
    THEN Err(w, mk_typck_err_named(rust_name, ct, NotSetOrList))
    ELSE LET builder == into_value_builder(w)
         IN  IF ~FitsI32(len)
             THEN Err(builder.buf, mk_ser_err_named(rust_name, ct, SetOrListTooManyElements))
             ELSE LET loop == sequence_loop(iter, 1, ct.el,
                                  append_bytes(builder, to_be_bytes(AsI32(len), 4)))
                      fin == finish(loop.builder)
                  IN  IF IsPanic(loop.res) THEN Panic(loop.builder.buf)
                      ELSE IF ~loop.res.ok
                      THEN Err(w,
                               mk_ser_err_named(rust_name, ct,
                                   SetOrListElementSerializationFailed(loop.res)))
                      ELSE IF fin.overflow
                      THEN Err(fin.buf, mk_ser_err_named(rust_name, ct, SizeOverflow))
                      ELSE Ok(fin.buf)

serialize_sequence(rust_name, len, iter, ct, w) ==
    IF ct.t \notin {"List", "Set"}
    THEN Err(w, mk_typck_err_named(rust_name, ct, NotSetOrList))
    ELSE LET builder == into_value_builder(w)
         IN  IF ~FitsI32(len)
             THEN Err(builder.buf, mk_ser_err_named(rust_name, ct, SetOrListTooManyElements))
             ELSE LET loop == sequence_loop(iter, 1, ct.el,
                                  append_bytes(builder, to_be_bytes(AsI32(len), 4)))
                      fin == finish(loop.builder)
                  IN  IF IsPanic(loop.res) THEN Panic(loop.builder.buf)
                      ELSE IF ~loop.res.ok
                      THEN Err(loop.builder.buf,
                               mk_ser_err_named(rust_name, ct,
                                   SetOrListElementSerializationFailed(loop.res)))
                      ELSE IF fin.overflow
                      THEN Err(fin.buf, mk_ser_err_named(rust_name, ct, SizeOverflow))
                      ELSE Ok(fin.buf)

\* a pair loop that serializes the value of a pair before its key
RECURSIVE mapping_loop_value_first(_, _, _, _, _)
mapping_loop_value_first(iter, i, ktyp, vtyp, builder) ==
    IF i > IterCount(iter) THEN [builder |-> builder, res |-> Proof, at |-> "none"]
    ELSE LET vout == Serialize(IterAt(iter, i)[2], vtyp, make_sub_writer(builder))
             b1 == builder_after(builder, vout.buf)
             kout == Serialize(IterAt(iter, i)[1], ktyp, make_sub_writer(b1))
             b2 == builder_after(b1, kout.buf)
         IN  IF ~vout.res.ok THEN [builder |-> b1, res |-> vout.res, at |-> "value"]
             ELSE IF ~kout.res.ok THEN [builder |-> b2, res |-> kout.res, at |-> "key"]
             ELSE mapping_loop_value_first(iter, i + 1, ktyp, vtyp, b2)

\* `for (k, v) in iter { K::serialize(k, ktyp, ...)?; V::serialize(v, vtyp, ...)?; }`
RECURSIVE mapping_loop(_, _, _, _, _)
mapping_loop(iter, i, ktyp, vtyp, builder) ==
    IF i > IterCount(iter) THEN [builder |-> builder, res |-> Proof, at |-> "none"]
    ELSE LET kout == Serialize(IterAt(iter, i)[1], ktyp, make_sub_writer(builder))
             b1 == builder_after(builder, kout.buf)
             vout == Serialize(IterAt(iter, i)[2], vtyp, make_sub_writer(b1))
             b2 == builder_after(b1, vout.buf)
         IN  IF ~kout.res.ok THEN [builder |-> b1, res |-> kout.res, at |-> "key"]
             ELSE IF ~vout.res.ok THEN [builder |-> b2, res |-> vout.res, at |-> "value"]
             ELSE mapping_loop(iter, i + 1, ktyp, vtyp, b2)

serialize_mapping(rust_name, len, iter, ct, w) ==
    IF ct.t # "Map"
    THEN Err(w, mk_typck_err_named(rust_name, ct, NotMap))
    ELSE LET builder == into_value_builder(w)
         IN  IF ~FitsI32(len)
             THEN Err(builder.buf, mk_ser_err_named(rust_name, ct, MapTooManyElements))
             ELSE LET loop == mapping_loop(iter, 1, ct.k, ct.v,
                                  append_bytes(builder, to_be_bytes(AsI32(len), 4)))
                      fin == finish(loop.builder)
                  IN  IF IsPanic(loop.res) THEN Panic(loop.builder.buf)
                      ELSE IF ~loop.res.ok
                      THEN Err(loop.builder.buf,
                               mk_ser_err_named(rust_name, ct,
                                   IF loop.at = "key"
                                   THEN KeySerializationFailed(loop.res)
                                   ELSE ValueSerializationFailed(loop.res)))
                      ELSE IF fin.overflow
                      THEN Err(fin.buf, mk_ser_err_named(rust_name, ct, SizeOverflow))
                      ELSE Ok(fin.buf)

\* impl SerializeCql for Vec<T>, &[T], HashSet<V, S>, BTreeSet<V>
serialize_Sequence(me, ct, w) ==
    serialize_sequence(me.rust_name, IterLen(Iter(me.elems, me.shift)),
                       Iter(me.elems, me.shift), ct, w)

\* impl SerializeCql for HashMap<K, V, S>, BTreeMap<K, V>
serialize_Map(me, ct, w) ==
    serialize_mapping(me.rust_name, IterLen(Iter(me.elems, me.shift)),
                      Iter(me.elems, me.shift), ct, w)

\* an element loop that counts the failing element from one
RECURSIVE tuple_elements_one_based(_, _, _, _)
tuple_elements_one_based(els, typs, index, builder) ==
    IF index >= Len(els) THEN [builder |-> builder, res |-> Proof, index |-> index]
    ELSE LET out == Serialize(els[index + 1], typs[index + 1], make_sub_writer(builder))
         IN  IF out.res.ok
             THEN tuple_elements_one_based(els, typs, index + 1,
                                           builder_after(builder, out.buf))
             ELSE [builder |-> builder_after(builder, out.buf), res |-> out.res,
                   index |-> index + 1]

\* impl_tuple!: the `$(...)*` repetition over the elements of the Rust tuple
RECURSIVE tuple_elements(_, _, _, _)
tuple_elements(els, typs, index, builder) ==
    IF index >= Len(els) THEN [builder |-> builder, res |-> Proof, index |-> index]
    ELSE LET out == Serialize(els[index + 1], typs[index + 1], make_sub_writer(builder))
         IN  IF out.res.ok
             THEN tuple_elements(els, typs, index + 1, builder_after(builder, out.buf))
             ELSE [builder |-> builder_after(builder, out.buf), res |-> out.res,
                   index |-> index]

\* the tuple impl reporting the two element counts the other way round
serialize_Tuple_counts_swapped(me, ct, w) ==
    IF ct.t # "Tuple"
    THEN Err(w, mk_typck_err_named(me.rust_name, ct, NotTuple))
    ELSE IF Len(ct.els) # Len(me.els)
    THEN Err(w, mk_typck_err_named(me.rust_name, ct,
                    WrongElementCount(Len(ct.els), Len(me.els))))
    ELSE LET loop == tuple_elements(me.els, ct.els, 0, into_value_builder(w))
             fin == finish(loop.builder)
         IN  IF IsPanic(loop.res) THEN Panic(loop.builder.buf)
             ELSE IF ~loop.res.ok
             THEN Err(loop.builder.buf,
                      mk_ser_err_named(me.rust_name, ct,
                          TupleElementSerializationFailed(loop.index, loop.res)))
             ELSE IF fin.overflow
             THEN Err(fin.buf, mk_ser_err_named(me.rust_name, ct, SizeOverflow))
             ELSE Ok(fin.buf)

\* impl<T0, ..> SerializeCql for (T0, ..)
serialize_Tuple(me, ct, w) ==
    IF ct.t # "Tuple"
    THEN Err(w, mk_typck_err_named(me.rust_name, ct, NotTuple))
    ELSE IF Len(ct.els) # Len(me.els)
    THEN Err(w, mk_typck_err_named(me.rust_name, ct,
                    WrongElementCount(Len(me.els), Len(ct.els))))
    ELSE LET loop == tuple_elements(me.els, ct.els, 0, into_value_builder(w))
             fin == finish(loop.builder)
         IN  IF IsPanic(loop.res) THEN Panic(loop.builder.buf)
             ELSE IF ~loop.res.ok
             THEN Err(loop.builder.buf,
                      mk_ser_err_named(me.rust_name, ct,
                          TupleElementSerializationFailed(loop.index, loop.res)))
             ELSE IF fin.overflow
             THEN Err(fin.buf, mk_ser_err_named(me.rust_name, ct, SizeOverflow))
             ELSE Ok(fin.buf)

\* an error handed on with the rust_name it came with
fix_cql_value_name_in_err_kept(err) == err

fix_cql_value_name_in_err(err) ==
    IF err.cls \in {"BuiltinTypeCheckError", "BuiltinSerializationError"}
    THEN [err EXCEPT !.rust_name = CqlValueName]
    ELSE err

\* serialize_tuple_like: `for (index, (el, el_typ)) in field_values.zip(field_types).enumerate()`
RECURSIVE tuple_like_loop(_, _, _, _, _)
tuple_like_loop(ct, field_types, field_values, index, builder) ==
    IF index >= Len(field_values) \/ index >= Len(field_types)
    THEN [builder |-> builder, res |-> Proof]
    ELSE LET el == field_values[index + 1]
             sub == make_sub_writer(builder)
             out == IF el.r = "None" THEN Ok(set_null(sub))
                    ELSE serialize_cql_value(el.inner, field_types[index + 1], sub)
         IN  IF out.res.ok
             THEN tuple_like_loop(ct, field_types, field_values, index + 1,
                                  builder_after(builder, out.buf))
             ELSE [builder |-> builder_after(builder, out.buf),
                   res |-> IF IsPanic(out.res) THEN out.res
                           ELSE mk_ser_err_named(CqlValueName, ct,
                                    TupleElementSerializationFailed(index,
                                        fix_cql_value_name_in_err(out.res)))]

\* serialize_tuple_like that writes a null cell for every type left without
\* a value
RECURSIVE pad_nulls(_, _)
pad_nulls(builder, n) ==
    IF n <= 0 THEN builder
    ELSE pad_nulls(builder_after(builder, set_null(make_sub_writer(builder))), n - 1)

serialize_tuple_like_padded(ct, field_types, field_values, w) ==
    LET loop == tuple_like_loop(ct, field_types, field_values, 0, into_value_builder(w))
        fin == finish(pad_nulls(loop.builder, Len(field_types) - Len(field_values)))
    IN  IF ~loop.res.ok THEN Err(loop.builder.buf, loop.res)
        ELSE Ok(fin.buf)

serialize_tuple_like(ct, field_types, field_values, w) ==
    LET loop == tuple_like_loop(ct, field_types, field_values, 0, into_value_builder(w))
        fin == finish(loop.builder)
    IN  IF ~loop.res.ok THEN Err(loop.builder.buf, loop.res)
        ELSE IF fin.overflow
        THEN Err(fin.buf, mk_ser_err_named(CqlValueName, ct, SizeOverflow))
        ELSE Ok(fin.buf)

\* The field names of the model, in lexicographic order (the order of str::cmp).
FieldNames == <<"a", "b", "c", "d">>
NameRank(n) == CHOOSE i \in DOMAIN FieldNames : FieldNames[i] = n
\* picking the greatest leftover name instead of the smallest
MaxName(names) == CHOOSE n \in names : \A m \in names : NameRank(n) >= NameRank(m)

\* `indexed_fields.keys().min().unwrap()`
MinName(names) == CHOOSE n \in names : \A m \in names : NameRank(n) <= NameRank(m)

\* a field map in which an earlier pair keeps its key against a later one
indexed_fields_of_earliest(values) ==
    [n \in {values[i][1] : i \in DOMAIN values} |->
        values[CHOOSE i \in DOMAIN values :
                  /\ values[i][1] = n
                  /\ \A j \in DOMAIN values : values[j][1] = n => j >= i][2]]

\* a field map that hands out the value of the first pair for every name
indexed_fields_of_first(values) ==
    [n \in {values[i][1] : i \in DOMAIN values} |-> values[1][2]]

\* `values.iter().map(|(k, v)| (k.as_str(), v)).collect::<HashMap<_, _>>()`:
\* a later pair replaces an earlier one with the same key
indexed_fields_of(values) ==
    [n \in {values[i][1] : i \in DOMAIN values} |->
        values[CHOOSE i \in DOMAIN values :
                  /\ values[i][1] = n
                  /\ \A j \in DOMAIN values : values[j][1] = n => j <= i][2]]

\* a field loop that writes nothing for a descriptor field the value lacks
RECURSIVE udt_loop_skip_absent(_, _, _, _, _, _)
udt_loop_skip_absent(ct, field_types, i, indexed_fields, left, builder) ==
    IF i > Len(field_types) THEN [builder |-> builder, res |-> Proof, left |-> left]
    ELSE LET fname == field_types[i][1]
             ftyp == field_types[i][2]
             sub == make_sub_writer(builder)
             out == serialize_cql_value(indexed_fields[fname].inner, ftyp, sub)
         IN  IF fname \notin left \/ indexed_fields[fname].r = "None"
             THEN udt_loop_skip_absent(ct, field_types, i + 1, indexed_fields,
                                       left \ {fname}, builder)
             ELSE IF out.res.ok
             THEN udt_loop_skip_absent(ct, field_types, i + 1, indexed_fields,
                                       left \ {fname},
                                       builder_after(builder, out.buf))
             ELSE [builder |-> builder_after(builder, out.buf),
                   left |-> left \ {fname},
                   res |-> IF IsPanic(out.res) THEN out.res
                           ELSE mk_ser_err_named(CqlValueName, ct,
                                    FieldSerializationFailed(fname,
                                        fix_cql_value_name_in_err(out.res)))]

\* serialize_udt: `for (fname, ftyp) in field_types`; `left` is the key set of
\* indexed_fields after the removals so far
RECURSIVE udt_loop(_, _, _, _, _, _)
udt_loop(ct, field_types, i, indexed_fields, left, builder) ==
    IF i > Len(field_types) THEN [builder |-> builder, res |-> Proof, left |-> left]
    ELSE LET fname == field_types[i][1]
             ftyp == field_types[i][2]
             removed == IF fname \in left THEN indexed_fields[fname] ELSE [r |-> "None"]
             sub == make_sub_writer(builder)
             out == IF removed.r = "None" THEN Ok(set_null(sub))
                    ELSE serialize_cql_value(removed.inner, ftyp, sub)
         IN  IF out.res.ok
             THEN udt_loop(ct, field_types, i + 1, indexed_fields, left \ {fname},
                           builder_after(builder, out.buf))
             ELSE [builder |-> builder_after(builder, out.buf),
                   left |-> left \ {fname},
                   res |-> IF IsPanic(out.res) THEN out.res
                           ELSE mk_ser_err_named(CqlValueName, ct,
                                    FieldSerializationFailed(fname,
                                        fix_cql_value_name_in_err(out.res)))]

\* a UDT check whose NameMismatch carries the value's names
serialize_udt_value_names(ct, keyspace, udt_name, values, w) ==
    IF ct.t # "UserDefinedType"
    THEN Err(w, mk_typck_err_named(CqlValueName, ct, NotUdt))
    ELSE IF keyspace # ct.keyspace \/ udt_name # ct.type_name
    THEN Err(w, mk_typck_err_named(CqlValueName, ct,
                    NameMismatch(keyspace, udt_name)))
    ELSE LET indexed_fields == indexed_fields_of(values)
             loop == udt_loop(ct, ct.field_types, 1, indexed_fields,
                              DOMAIN indexed_fields, into_value_builder(w))
             fin == finish(loop.builder)
         IN  IF ~loop.res.ok THEN Err(loop.builder.buf, loop.res)
             ELSE IF loop.left # {}
             THEN Err(loop.builder.buf,
                      mk_typck_err_named(CqlValueName, ct,
                          NoSuchFieldInUdt(MinName(loop.left))))
             ELSE IF fin.overflow
             THEN Err(fin.buf, mk_ser_err_named(CqlValueName, ct, SizeOverflow))
             ELSE Ok(fin.buf)

\* a UDT check that takes the smallest leftover name without asking whether
\* any name is left: `min()` of no keys is None, and the unwrap aborts
serialize_udt_unguarded_min(ct, keyspace, udt_name, values, w) ==
    IF ct.t # "UserDefinedType"
    THEN Err(w, mk_typck_err_named(CqlValueName, ct, NotUdt))
    ELSE IF keyspace # ct.keyspace \/ udt_name # ct.type_name
    THEN Err(w, mk_typck_err_named(CqlValueName, ct,
                    NameMismatch(ct.keyspace, ct.type_name)))
    ELSE LET indexed_fields == indexed_fields_of(values)
             loop == udt_loop(ct, ct.field_types, 1, indexed_fields,
                              DOMAIN indexed_fields, into_value_builder(w))
         IN  IF ~loop.res.ok THEN Err(loop.builder.buf, loop.res)
             ELSE IF loop.left = {} THEN Panic(loop.builder.buf)
             ELSE Err(loop.builder.buf,
                      mk_typck_err_named(CqlValueName, ct,
                          NoSuchFieldInUdt(MinName(loop.left))))

\* a UDT check that looks for undeclared value fields before the field loop
serialize_udt_leftover_first(ct, keyspace, udt_name, values, w) ==
    IF ct.t # "UserDefinedType"
    THEN Err(w, mk_typck_err_named(CqlValueName, ct, NotUdt))
    ELSE IF keyspace # ct.keyspace \/ udt_name # ct.type_name
    THEN Err(w, mk_typck_err_named(CqlValueName, ct,
                    NameMismatch(ct.keyspace, ct.type_name)))
    ELSE LET indexed_fields == indexed_fields_of(values)
             undeclared == DOMAIN indexed_fields \
                              {ct.field_types[i][1] : i \in DOMAIN ct.field_types}
             loop == udt_loop(ct, ct.field_types, 1, indexed_fields,
                              DOMAIN indexed_fields, into_value_builder(w))
             fin == finish(loop.builder)
         IN  IF undeclared # {}
             THEN Err(w, mk_typck_err_named(CqlValueName, ct,
                             NoSuchFieldInUdt(MinName(undeclared))))
             ELSE IF ~loop.res.ok THEN Err(loop.builder.buf, loop.res)
             ELSE IF fin.overflow
             THEN Err(fin.buf, mk_ser_err_named(CqlValueName, ct, SizeOverflow))
             ELSE Ok(fin.buf)

serialize_udt(ct, keyspace, udt_name, values, w) ==
    IF ct.t # "UserDefinedType"
    THEN Err(w, mk_typck_err_named(CqlValueName, ct, NotUdt))
    ELSE IF keyspace # ct.keyspace \/ udt_name # ct.type_name
    THEN Err(w, mk_typck_err_named(CqlValueName, ct,
                    NameMismatch(ct.keyspace, ct.type_name)))
    ELSE LET indexed_fields == indexed_fields_of(values)
             loop == udt_loop(ct, ct.field_types, 1, indexed_fields,
                              DOMAIN indexed_fields, into_value_builder(w))
             fin == finish(loop.builder)
         IN  IF ~loop.res.ok THEN Err(loop.builder.buf, loop.res)
             ELSE IF loop.left # {}
             THEN Err(loop.builder.buf,
                      mk_typck_err_named(CqlValueName, ct,
                          NoSuchFieldInUdt(MinName(loop.left))))
             ELSE IF fin.overflow
             THEN Err(fin.buf, mk_ser_err_named(CqlValueName, ct, SizeOverflow))
             ELSE Ok(fin.buf)

\* the Rust type a scalar variant of CqlValue holds
variant_type(tag) ==
    CASE tag \in {"Ascii", "Text"} -> "String"
      [] tag = "Boolean" -> "bool"
      [] tag = "Blob" -> "Vec<u8>"
      [] tag = "Counter" -> "Counter"
      [] tag = "Decimal" -> "BigDecimal"
      [] tag = "Date" -> "CqlDate"
      [] tag = "Double" -> "f64"
      [] tag = "Duration" -> "CqlDuration"
      [] tag = "Float" -> "f32"
      [] tag = "Int" -> "i32"
      [] tag = "BigInt" -> "i64"
      [] tag = "Timestamp" -> "CqlTimestamp"
      [] tag = "Inet" -> "IpAddr"
      [] tag = "SmallInt" -> "i16"
      [] tag = "TinyInt" -> "i8"
      [] tag = "Time" -> "CqlTime"
      [] tag \in {"Timeuuid", "Uuid"} -> "Uuid"
      [] tag = "Varint" -> "BigInt"

VecCqlValueName == "alloc::vec::Vec<scylla_cql::frame::response::result::CqlValue>"

\* serialize_cql_value that looks at the Empty variant before the Custom check
serialize_cql_value_empty_first(val, ct, w) ==
    IF val.tag = "Empty"
    THEN IF ~supports_special_empty_value(ct)
         THEN Err(w, mk_typck_err_named(CqlValueName, ct, NotEmptyable))
         ELSE Ok(set_value(w, <<>>).buf)
    ELSE IF ct.t = "Custom"
    THEN Err(w, mk_typck_err_named(CqlValueName, ct, CustomTypeUnsupported))
    ELSE CASE val.tag \in {"List", "Set"} ->
                Serialize([r |-> "Vec", rust_name |-> VecCqlValueName,
                           elems |-> val.items, shift |-> val.shift], ct, w)
           [] val.tag = "Map" ->
                serialize_mapping(CqlValueName, IterLen(Iter(val.items, val.shift)),
                                  Iter(val.items, val.shift), ct, w)
           [] val.tag = "UserDefinedType" ->
                serialize_udt(ct, val.keyspace, val.type_name, val.fields, w)
           [] val.tag = "Tuple" ->
                IF ct.t # "Tuple"
                THEN Err(w, mk_typck_err_named(CqlValueName, ct, NotTuple))
                ELSE IF Len(ct.els) < Len(val.items)
                THEN Err(w, mk_typck_err_named(CqlValueName, ct,
                                WrongElementCount(Len(val.items), Len(ct.els))))
                ELSE serialize_tuple_like(ct, ct.els, val.items, w)
           [] OTHER ->
                Serialize([val EXCEPT !.r = variant_type(val.tag)], ct, w)

\* a dynamic value writing Empty without asking the descriptor
serialize_cql_value_empty_unchecked(val, ct, w) ==
    IF ct.t = "Custom"
    THEN Err(w, mk_typck_err_named(CqlValueName, ct, CustomTypeUnsupported))
    ELSE CASE val.tag = "Empty" ->
                Ok(set_value(w, <<>>).buf)
           [] val.tag \in {"List", "Set"} ->
                Serialize([r |-> "Vec", rust_name |-> VecCqlValueName,
                           elems |-> val.items, shift |-> val.shift], ct, w)
           [] val.tag = "Map" ->
                serialize_mapping(CqlValueName, IterLen(Iter(val.items, val.shift)),
                                  Iter(val.items, val.shift), ct, w)
           [] val.tag = "UserDefinedType" ->
                serialize_udt(ct, val.keyspace, val.type_name, val.fields, w)
           [] val.tag = "Tuple" ->
                IF ct.t # "Tuple"
                THEN Err(w, mk_typck_err_named(CqlValueName, ct, NotTuple))
                ELSE IF Len(ct.els) < Len(val.items)
                THEN Err(w, mk_typck_err_named(CqlValueName, ct,
                                WrongElementCount(Len(val.items), Len(ct.els))))
                ELSE serialize_tuple_like(ct, ct.els, val.items, w)
           [] OTHER ->
                Serialize([val EXCEPT !.r = variant_type(val.tag)], ct, w)

serialize_cql_value(val, ct, w) ==
    IF ct.t = "Custom"
    THEN Err(w, mk_typck_err_named(CqlValueName, ct, CustomTypeUnsupported))
    ELSE CASE val.tag = "Empty" ->
                IF ~supports_special_empty_value(ct)
                THEN Err(w, mk_typck_err_named(CqlValueName, ct, NotEmptyable))
                ELSE Ok(set_value(w, <<>>).buf)
           [] val.tag \in {"List", "Set"} ->
                Serialize([r |-> "Vec", rust_name |-> VecCqlValueName,
                           elems |-> val.items, shift |-> val.shift], ct, w)
           [] val.tag = "Map" ->
                serialize_mapping(CqlValueName, IterLen(Iter(val.items, val.shift)),
                                  Iter(val.items, val.shift), ct, w)
           [] val.tag = "UserDefinedType" ->
                serialize_udt(ct, val.keyspace, val.type_name, val.fields, w)
           [] val.tag = "Tuple" ->
                IF ct.t # "Tuple"
                THEN Err(w, mk_typck_err_named(CqlValueName, ct, NotTuple))
                ELSE IF Len(ct.els) < Len(val.items)
                THEN Err(w, mk_typck_err_named(CqlValueName, ct,
                                WrongElementCount(Len(val.items), Len(ct.els))))
                ELSE serialize_tuple_like(ct, ct.els, val.items, w)
           [] OTHER ->
                Serialize([val EXCEPT !.r = variant_type(val.tag)], ct, w)

\* impl SerializeCql for CqlValue
serialize_CqlValue(me, ct, w) ==
    LET out == serialize_cql_value(me, ct, w)
    IN  IF out.res.ok \/ IsPanic(out.res) THEN out
        ELSE Err(out.buf, fix_cql_value_name_in_err(out.res))

\* an adapter that frames the whole legacy output as the contents of a cell
serialize_legacy_value_reframed(v, w) ==
    IF ~v.ok THEN Err(w, adapter_err([k |-> "TooBig"]))
    ELSE Ok(set_value(w, v.out).buf)

\* serialize_legacy_value; `v` is what <T as Value>::serialize did: whether it
\* returned Ok and the bytes it left in the scratch buffer
serialize_legacy_value(v, w) ==
    IF ~v.ok THEN Err(w, adapter_err([k |-> "TooBig"]))
    ELSE IF Len(v.out) < 4
    THEN Err(w, adapter_err([k |-> "TooShort", size |-> Len(v.out)]))
    ELSE LET len == from_be_bytes(SubSeq(v.out, 1, 4))
             contents == SubSeq(v.out, 5, Len(v.out))
             out == set_value(w, contents)
         IN  IF len = -2 THEN Ok(set_unset(w))
             ELSE IF len = -1 THEN Ok(set_null(w))
             ELSE IF len >= 0
             THEN IF Len(contents) # len
                  THEN Err(w, adapter_err([k |-> "DeclaredVsActualSizeMismatch",
                                           declared |-> len, actual |-> Len(contents)]))
                  ELSE IF out.overflow THEN Panic(out.buf) ELSE Ok(out.buf)
             ELSE Err(w, adapter_err([k |-> "InvalidDeclaredSize", size |-> len]))

\* impl<T: Value> SerializeCql for ValueAdapter<T>
serialize_ValueAdapter(me, ct, w) == serialize_legacy_value(me.legacy, w)

(***************************************************************************)
(* #[derive(SerializeCql)]: the serializer generated for a struct with     *)
(* named fields.  `sfields` are the struct's (name, value) pairs in        *)
(* declaration order, `flavor` is "match_by_name" or "enforce_order".      *)
(***************************************************************************)
struct_names(me) == {me.sfields[j][1] : j \in DOMAIN me.sfields}

\* a field lookup that always hands out the struct's first field
struct_field_first(me, name) == me.sfields[1][2]

struct_field(me, name) ==
    me.sfields[CHOOSE j \in DOMAIN me.sfields : me.sfields[j][1] = name][2]

\* never writing a null cell for a skipped descriptor field
skipped_nulls_dropped(builder, n) == builder

\* the null cells owed for the descriptor fields skipped so far
RECURSIVE skipped_nulls(_, _)
skipped_nulls(builder, n) ==
    IF n <= 0 THEN builder
    ELSE skipped_nulls(builder_after(builder, set_null(make_sub_writer(builder))),
                       n - 1)

\* match_by_name: walk the descriptor's fields; a field the struct lacks is
\* remembered as skipped and written as null only once a later field of the
\* struct is written
RECURSIVE by_name_loop(_, _, _, _, _, _)
by_name_loop(me, ct, i, skipped, visited, builder) ==
    IF i > Len(ct.field_types)
    THEN [builder |-> builder, res |-> Proof, visited |-> visited]
    ELSE LET fname == ct.field_types[i][1]
             ftyp == ct.field_types[i][2]
             padded == skipped_nulls(builder, skipped)
             out == Serialize(struct_field(me, fname), ftyp, make_sub_writer(padded))
         IN  IF fname \notin struct_names(me)
             THEN by_name_loop(me, ct, i + 1, skipped + 1, visited, builder)
             ELSE IF out.res.ok
             THEN by_name_loop(me, ct, i + 1, 0, visited \cup {fname},
                               builder_after(padded, out.buf))
             ELSE [builder |-> builder_after(padded, out.buf),
                   visited |-> visited \cup {fname},
                   res |-> IF IsPanic(out.res) THEN out.res
                           ELSE mk_ser_err_named(me.rust_name, ct,
                                    FieldSerializationFailed(fname, out.res))]

serialize_struct_by_name(me, ct, w) ==
    IF ct.t # "UserDefinedType"
    THEN Err(w, mk_typck_err_named(me.rust_name, ct, NotUdt))
    ELSE LET loop == by_name_loop(me, ct, 1, 0, {}, into_value_builder(w))
             missing == {j \in DOMAIN me.sfields : me.sfields[j][1] \notin loop.visited}
             first == CHOOSE j \in missing : \A k \in missing : j <= k
             fin == finish(loop.builder)
         IN  IF ~loop.res.ok THEN Err(loop.builder.buf, loop.res)
             ELSE IF missing # {}
             THEN Err(loop.builder.buf,
                      mk_typck_err_named(me.rust_name, ct,
                          ValueMissingForUdtField(me.sfields[first][1])))
             ELSE IF fin.overflow
             THEN Err(fin.buf, mk_ser_err_named(me.rust_name, ct, SizeOverflow))
             ELSE Ok(fin.buf)

\* enforce_order: the j-th field of the struct goes to the j-th field of the
\* descriptor, whose name must be the struct field's
RECURSIVE in_order_loop(_, _, _, _)
in_order_loop(me, ct, j, builder) ==
    IF j > Len(me.sfields) THEN [builder |-> builder, res |-> Proof]
    ELSE LET rname == me.sfields[j][1]
             out == Serialize(me.sfields[j][2], ct.field_types[j][2],
                              make_sub_writer(builder))
         IN  IF j > Len(ct.field_types)
             THEN [builder |-> builder,
                   res |-> mk_typck_err_named(me.rust_name, ct,
                               ValueMissingForUdtField(rname))]
             ELSE IF ct.field_types[j][1] # rname
             THEN [builder |-> builder,
                   res |-> mk_typck_err_named(me.rust_name, ct,
                               FieldNameMismatch(rname, ct.field_types[j][1]))]
             ELSE IF out.res.ok
             THEN in_order_loop(me, ct, j + 1, builder_after(builder, out.buf))
             ELSE [builder |-> builder_after(builder, out.buf),
                   res |-> IF IsPanic(out.res) THEN out.res
                           ELSE mk_ser_err_named(me.rust_name, ct,
                                    FieldSerializationFailed(rname, out.res))]

serialize_struct_in_order(me, ct, w) ==
    IF ct.t # "UserDefinedType"
    THEN Err(w, mk_typck_err_named(me.rust_name, ct, NotUdt))
    ELSE LET loop == in_order_loop(me, ct, 1, into_value_builder(w))
             fin == finish(loop.builder)
         IN  IF ~loop.res.ok THEN Err(loop.builder.buf, loop.res)
             ELSE IF fin.overflow
             THEN Err(fin.buf, mk_ser_err_named(me.rust_name, ct, SizeOverflow))
             ELSE Ok(fin.buf)

serialize_Struct(me, ct, w) ==
    IF me.flavor = "enforce_order" THEN serialize_struct_in_order(me, ct, w)
    ELSE serialize_struct_by_name(me, ct, w)

Serialize(me, ct, w) ==
    CASE me.r = "BigDecimal" -> serialize_BigDecimal(me, ct, w)
      [] me.r \in NativeRust \ {"BigDecimal"} -> serialize_native(me, ct, w)
      [] me.r \in {"None", "Some"} -> serialize_Option(me, ct, w)
      [] me.r = "Unset" -> serialize_Unset(me, ct, w)
      [] me.r \in {"MaybeUnset::Unset", "MaybeUnset::Set"} -> serialize_MaybeUnset(me, ct, w)
      [] me.r \in {"Ref", "Box"} -> serialize_Ref(me, ct, w)
      [] me.r \in {"Vec", "Slice", "HashSet", "BTreeSet"} -> serialize_Sequence(me, ct, w)
      [] me.r \in {"HashMap", "BTreeMap"} -> serialize_Map(me, ct, w)
      [] me.r = "Tuple" -> serialize_Tuple(me, ct, w)
      [] me.r = "CqlValue" -> serialize_CqlValue(me, ct, w)
      [] me.r = "ValueAdapter" -> serialize_ValueAdapter(me, ct, w)
      [] me.r = "Struct" -> serialize_Struct(me, ct, w)

(***************************************************************************)
(* The inputs of the model: the values and descriptors a caller hands to   *)
(* serialize.                                                              *)
(***************************************************************************)
SeqsUpTo(S, n) == UNION {[1..k -> S] : k \in 0..n}

\* numbers, with the edges of the 8, 16 and 32 bit ranges
Numbers == (-MaxInt..MaxInt) \cup {127, -128, 258, -32768, 16909060, I32Max, -I32Max - 1}

InRange(n, bits) == n >= -(2 ^ (bits - 1)) /\ n <= 2 ^ (bits - 1) - 1

NumbersOf(r) ==
    CASE r = "i8" -> {n \in Numbers : InRange(n, 8)}
      [] r = "i16" -> {n \in Numbers : InRange(n, 16)}
      [] r = "CqlDate" -> {n \in Numbers : n >= 0}
      [] OTHER -> Numbers

NumericRust == {"i8", "i16", "i32", "i64", "CqlDate", "CqlTimestamp", "CqlTime",
                "f32", "f64", "Counter", "BigInt"}

\* "", "a", "Ala"
Strings == {<<>>, <<97>>, <<65, 108, 97>>}

Uuids == {[i \in 1..16 |-> 0], [i \in 1..16 |-> i]}

IpAddrs == {<<127, 0, 0, 1>>, [i \in 1..16 |-> IF i = 16 THEN 1 ELSE 0]}

NativeValues ==
    {[r |-> r, v |-> n] : r \in NumericRust, n \in -MaxInt..MaxInt}
    \cup UNION {{[r |-> r, v |-> n] : n \in NumbersOf(r)} : r \in NumericRust}
    \cup {[r |-> "bool", flag |-> b] : b \in BOOLEAN}
    \cup {[r |-> r, bytes |-> s] : r \in {"String", "&str", "Vec<u8>", "&[u8]"}, s \in Strings}
    \cup {[r |-> "Uuid", bytes |-> u] : u \in Uuids}
    \cup {[r |-> "IpAddr", bytes |-> a] : a \in IpAddrs}
    \cup {[r |-> "BigDecimal", v |-> n, scale |-> sc] :
            n \in {0, 123, -129}, sc \in {Wide(0, 0), Wide(2, 0), Wide(-1, 0), Wide(1, 40)}}
    \cup {[r |-> "CqlDuration", months |-> m, days |-> d, nanoseconds |-> n] :
            m \in {0, 1}, d \in {-1, 64}, n \in {0, 8192}}

NativeTypes == {Native(k) : k \in NativeKinds}

UdtTypes ==
    {UdtOf("ks", "udt", f) :
        f \in {<<>>, <<<<"a", Native("Int")>>>>,
               <<<<"a", Native("Int")>>, <<"b", Native("Text")>>>>,
               <<<<"b", Native("Text")>>, <<"a", Native("Int")>>>>,
               <<<<"a", Native("Int")>>, <<"b", Native("Int")>>, <<"c", Native("Int")>>>>}}
    \cup {UdtOf("ks", "udt2", <<<<"a", Native("Int")>>>>),
          UdtOf("ks2", "udt", <<<<"a", Native("Int")>>>>),
          UdtOf("ks", "udt", <<<<"a", Native("Text")>>, <<"b", Native("Int")>>,
                               <<"c", ListOf(Native("BigInt"))>>>>)}

TupleTypes ==
    {TupleOf(els) : els \in SeqsUpTo({Native("Int")}, 3)}
    \cup {TupleOf(<<Native("Int"), Native("Text")>>),
          TupleOf(<<Native("Int"), Native("Text"), Native("Uuid")>>),
          TupleOf(<<Native("Int"), Native("Text"), Native("Double")>>)}

CollectionTypes ==
    {ListOf(Native("Int")), SetOf(Native("Int")), ListOf(Native("Double")),
     ListOf(Native("Text")), SetOf(Native("Text")), ListOf(Native("BigInt")),
     ListOf(ListOf(Native("Int"))), ListOf(Custom("foo")),
     MapOf(Native("Int"), Native("Text")), MapOf(Native("Int"), Native("Int")),
     MapOf(Native("Double"), Native("Int")), MapOf(Native("Int"), Native("Double")),
     MapOf(Native("Double"), Native("Double"))}

Types == NativeTypes \cup CollectionTypes \cup TupleTypes \cup UdtTypes \cup {Custom("foo")}

\* the descriptors a collection or tuple value is serialized against
CompositeCallTypes ==
    CollectionTypes \cup TupleTypes
    \cup {Native("Int"), Native("Text"), Native("Blob"), Custom("foo"),
          UdtOf("ks", "udt", <<<<"a", Native("Int")>>>>)}

I32s == {[r |-> "i32", v |-> n] : n \in -MaxInt..MaxInt}

\* the elements of `vec![1, 2, 3]`
Vec123 == <<[r |-> "i32", v |-> 1], [r |-> "i32", v |-> 2], [r |-> "i32", v |-> 3]>>

NoneV == [r |-> "None"]
SomeV(v) == [r |-> "Some", inner |-> v]
UnsetV == [r |-> "Unset"]

\* Vec<T>, &[T], HashSet<T>, BTreeSet<T>; the elements are in iteration order
Sequences ==
    {[r |-> r, rust_name |-> "alloc::vec::Vec<i32>", elems |-> e, shift |-> 0] :
        r \in {"Vec"}, e \in SeqsUpTo(I32s, MaxElems) \cup {Vec123}}
    \cup {[r |-> "Slice", rust_name |-> "&[i32]", elems |-> e, shift |-> 0] :
            e \in SeqsUpTo(I32s, 1)}
    \cup {[r |-> "HashSet", rust_name |-> "std::collections::hash::set::HashSet<i32>",
           elems |-> e, shift |-> 0] :
            e \in {x \in SeqsUpTo(I32s, MaxFields) : Cardinality(Range(x)) = Len(x)}}
    \cup {[r |-> "BTreeSet", rust_name |-> "alloc::collections::btree::set::BTreeSet<i32>",
           elems |-> e, shift |-> 0] :
            e \in {x \in SeqsUpTo(I32s, MaxFields) :
                     \A i \in DOMAIN x : \A j \in DOMAIN x : i < j => x[i].v < x[j].v}}
    \cup {[r |-> "Vec", rust_name |-> "alloc::vec::Vec<alloc::string::String>",
           elems |-> e, shift |-> 0] :
            e \in SeqsUpTo({[r |-> "String", bytes |-> s] : s \in {<<>>, <<97>>}}, MaxFields)}
    \cup {[r |-> "Vec", rust_name |-> "alloc::vec::Vec<core::option::Option<i32>>",
           elems |-> e, shift |-> 0] :
            e \in SeqsUpTo({NoneV, SomeV([r |-> "i32", v |-> 1])}, MaxFields)}
    \cup {[r |-> "Vec", rust_name |-> "alloc::vec::Vec<scylla_cql::frame::value::Unset>",
           elems |-> e, shift |-> 0] :
            e \in SeqsUpTo({UnsetV}, MaxFields)}
    \cup {[r |-> "Vec",
           rust_name |-> "alloc::vec::Vec<scylla_cql::frame::value::MaybeUnset<i32>>",
           elems |-> e, shift |-> 0] :
            e \in SeqsUpTo({[r |-> "MaybeUnset::Unset"],
                            [r |-> "MaybeUnset::Set", inner |-> [r |-> "i32", v |-> 1]]},
                           MaxFields)}
    \cup {[r |-> "Vec", rust_name |-> "alloc::vec::Vec<alloc::vec::Vec<i32>>",
           elems |-> e, shift |-> 0] :
            e \in SeqsUpTo({[r |-> "Vec", rust_name |-> "alloc::vec::Vec<i32>",
                             elems |-> x, shift |-> 0] : x \in SeqsUpTo(I32s, 1)}, 2)}
    \* `&[Unset; 1 << n] as &[Unset]`
    \cup {[r |-> "Slice", rust_name |-> "&[scylla_cql::frame::value::Unset]",
           elems |-> <<UnsetV>>, shift |-> n] : n \in {1, 31, 33}}
    \cup {[r |-> "Slice", rust_name |-> "&[i32]",
           elems |-> <<[r |-> "i32", v |-> 1]>>, shift |-> n] : n \in {1, 31}}

\* HashMap<K, V>, BTreeMap<K, V>; the pairs are in iteration order, keys distinct
Maps ==
    {[r |-> r, rust_name |-> "alloc::collections::btree::map::BTreeMap<i32, i32>",
      elems |-> e, shift |-> 0] :
        r \in {"BTreeMap"},
        e \in {x \in SeqsUpTo(I32s \X {[r |-> "i32", v |-> 1]}, MaxFields) :
                 \A i \in DOMAIN x : \A j \in DOMAIN x : i < j => x[i][1].v < x[j][1].v}}
    \cup {[r |-> "HashMap",
           rust_name |-> "std::collections::hash::map::HashMap<i32, alloc::string::String>",
           elems |-> e, shift |-> 0] :
            e \in {x \in SeqsUpTo(I32s \X {[r |-> "String", bytes |-> <<97>>]}, MaxFields) :
                     \A i \in DOMAIN x : \A j \in DOMAIN x : i # j => x[i][1] # x[j][1]}}

\* fixed-arity Rust tuples
RustTuples ==
    {[r |-> "Tuple", rust_name |-> "(i32,)", els |-> <<a>>] : a \in I32s}
    \cup {[r |-> "Tuple", rust_name |-> "(i32, i32)", els |-> <<a, b>>] :
            a \in I32s, b \in I32s}
    \cup {[r |-> "Tuple", rust_name |-> "(i32, i32, i32)", els |-> <<a, b, c>>] :
            a \in I32s, b \in {[r |-> "i32", v |-> 0]}, c \in I32s}
    \cup {[r |-> "Tuple", rust_name |-> "(i32, &str)", els |-> <<a, b>>] :
            a \in I32s, b \in {[r |-> "&str", bytes |-> s] : s \in Strings}}
    \cup {[r |-> "Tuple", rust_name |-> "(i32, &str, f64)", els |-> <<a, b, c>>] :
            a \in I32s, b \in {[r |-> "&str", bytes |-> <<97>>]},
            c \in {[r |-> "f64", v |-> n] : n \in {0, 1}}}
    \cup {[r |-> "Tuple", rust_name |-> "(core::option::Option<i32>, i32)",
           els |-> <<a, b>>] : a \in {NoneV} \cup {SomeV(x) : x \in I32s}, b \in I32s}

\* CqlValue: a scalar variant holds the Rust value of variant_type
CqlOf(tag, nv) ==
    [f \in (DOMAIN nv) \cup {"tag"} |->
        IF f = "tag" THEN tag ELSE IF f = "r" THEN "CqlValue" ELSE nv[f]]

CqlScalars ==
    UNION {{CqlOf(tag, nv) : nv \in {x \in NativeValues : x.r = variant_type(tag)}} :
             tag \in NativeKinds}

CqlInt(n) == [r |-> "CqlValue", tag |-> "Int", v |-> n]
CqlBigInt(n) == [r |-> "CqlValue", tag |-> "BigInt", v |-> n]
CqlText(s) == [r |-> "CqlValue", tag |-> "Text", bytes |-> s]
CqlEmpty == [r |-> "CqlValue", tag |-> "Empty"]
CqlList(tag, elems, shift) ==
    [r |-> "CqlValue", tag |-> tag, items |-> elems, shift |-> shift]
CqlTuple(els) == [r |-> "CqlValue", tag |-> "Tuple", items |-> els]
CqlUdt(ks, name, fields) ==
    [r |-> "CqlValue", tag |-> "UserDefinedType",
     keyspace |-> ks, type_name |-> name, fields |-> fields]

DynElems == {CqlInt(1), CqlText(<<97>>), CqlEmpty}

CqlCollections ==
    {CqlList(tag, e, 0) : tag \in {"List", "Set"}, e \in SeqsUpTo(DynElems, MaxElems)}
    \cup {CqlList("List", <<CqlBigInt(1), CqlBigInt(2), CqlBigInt(3)>>, 0),
          CqlList("List", <<CqlList("List", <<CqlInt(1)>>, 0), CqlList("List", <<>>, 0)>>, 0),
          CqlList("List", <<CqlInt(1)>>, 31), CqlList("Set", <<CqlInt(1)>>, 33)}
    \cup {CqlList("Map", e, 0) :
            e \in SeqsUpTo({CqlInt(1), CqlText(<<97>>)} \X {CqlInt(1), CqlText(<<97>>)},
                           MaxFields)}
    \cup {CqlList("Map", <<<<CqlInt(1), CqlInt(1)>>>>, n) : n \in {1, 31, 40}}

OptDyn == {NoneV, SomeV(CqlInt(1)), SomeV(CqlText(<<97>>)),
           SomeV([r |-> "CqlValue", tag |-> "Double", v |-> 0])}

CqlTuples ==
    {CqlTuple(e) : e \in SeqsUpTo(OptDyn, MaxFields + 1)}
    \cup {CqlTuple(<<SomeV(CqlTuple(<<SomeV(CqlInt(1))>>))>>)}

UdtFieldValues == {NoneV, SomeV(CqlInt(1)), SomeV(CqlText(<<97>>))}

CqlUdts ==
    {CqlUdt("ks", "udt", f) : f \in SeqsUpTo({"a", "b", "c"} \X UdtFieldValues, MaxFields)}
    \cup {CqlUdt(n[1], n[2], f) :
            n \in {<<"ks", "udt2">>, <<"ks2", "udt">>, <<"ks2", "udt2">>},
            f \in SeqsUpTo({"a"} \X UdtFieldValues, 1)}
    \cup {CqlUdt("ks", "udt",
                 <<<<"a", SomeV(CqlText(<<65, 108, 97>>))>>, <<"b", SomeV(CqlInt(42))>>,
                   <<"c", SomeV(CqlList("List",
                              <<CqlBigInt(1), CqlBigInt(2), CqlBigInt(3)>>, 0))>>>>)}
    \cup {CqlUdt("ks", "udt", <<<<"a", SomeV(CqlInt(1))>>, <<"b", SomeV(CqlInt(2))>>,
                               <<"c", SomeV(x)>>>>) : x \in {CqlInt(1), CqlText(<<97>>)}}
    \cup {CqlUdt("ks", "udt", <<<<"a", SomeV(CqlInt(1))>>, <<"d", SomeV(CqlInt(2))>>,
                               <<"c", SomeV(CqlInt(1))>>>>),
          CqlUdt("ks", "udt", <<<<"a", SomeV(CqlText(<<97>>))>>, <<"b", SomeV(CqlInt(2))>>,
                               <<"a", SomeV(CqlInt(1))>>>>)}

\* what a legacy `Value::serialize` returned and left in its buffer
LegacyOutputs ==
    {[ok |-> ok, out |-> out] :
        ok \in BOOLEAN,
        out \in {<<>>, <<0>>, <<0, 0, 0>>,
                 to_be_bytes(-1, 4), to_be_bytes(-2, 4), to_be_bytes(-3, 4),
                 to_be_bytes(-I32Max - 1, 4), to_be_bytes(0, 4),
                 to_be_bytes(0, 4) \o <<7>>, to_be_bytes(1, 4) \o <<7>>,
                 to_be_bytes(2, 4) \o <<7>>, to_be_bytes(1, 4) \o <<7, 8>>,
                 to_be_bytes(3, 4) \o <<65, 108, 97>>,
                 to_be_bytes(-1, 4) \o <<9>>, to_be_bytes(-2, 4) \o <<9>>,
                 to_be_bytes(4, 4) \o to_be_bytes(-2, 4)}}

ValueAdapters == {[r |-> "ValueAdapter", legacy |-> l] : l \in LegacyOutputs}

\* Option<T>, Unset, MaybeUnset<T>, &T, Box<T> around a value
Wrappable ==
    {[r |-> "i32", v |-> 1], [r |-> "String", bytes |-> <<97>>],
     [r |-> "Vec", rust_name |-> "alloc::vec::Vec<i32>",
      elems |-> <<[r |-> "i32", v |-> 1]>>, shift |-> 0],
     CqlInt(1), CqlEmpty, CqlTuple(<<SomeV(CqlInt(1))>>),
     [r |-> "ValueAdapter", legacy |-> [ok |-> TRUE, out |-> to_be_bytes(1, 4) \o <<7>>]]}

Wrap1(S) ==
    {[r |-> w, inner |-> x] : w \in {"Some", "MaybeUnset::Set", "Ref", "Box"}, x \in S}

Wrapped ==
    {NoneV, UnsetV, [r |-> "MaybeUnset::Unset"]}
    \cup Wrap1(Wrappable)
    \cup Wrap1(Wrap1({[r |-> "i32", v |-> 1]}) \cup {NoneV, UnsetV, [r |-> "MaybeUnset::Unset"]})

\* structs deriving SerializeCql, with their fields in declaration order
Struct(name, flavor, sfields) ==
    [r |-> "Struct", rust_name |-> name, flavor |-> flavor, sfields |-> sfields]

VecI64(e) ==
    [r |-> "Vec", rust_name |-> "alloc::vec::Vec<i64>", elems |-> e, shift |-> 0]

\* `vec![]` and `vec![1, 2, 3]`
VecsI64 == {VecI64(<<>>),
            VecI64(<<[r |-> "i64", v |-> 1], [r |-> "i64", v |-> 2],
                     [r |-> "i64", v |-> 3]>>)}

OptCounters == {NoneV, SomeV([r |-> "Counter", v |-> 1])}
OptFloats == {NoneV, SomeV([r |-> "f32", v |-> 1])}

Structs ==
    {Struct("TestUdtWithNoFields", "match_by_name", <<>>)}
    \cup {Struct(n[1], n[2], <<<<"a", [r |-> "String", bytes |-> a]>>, <<"b", b>>,
                               <<"c", c>>>>) :
            n \in {<<"TestUdtWithFieldSorting", "match_by_name">>,
                   <<"TestUdtWithEnforcedOrder", "enforce_order">>},
            a \in {<<>>, <<65, 108, 97>>}, b \in I32s, c \in VecsI64}
    \cup {Struct("TestUdtWithFieldSorting2", "match_by_name",
                 <<<<"a", [r |-> "String", bytes |-> <<65, 108, 97>>]>>, <<"b", b>>,
                   <<"d", d>>, <<"c", c>>>>) :
            b \in I32s, d \in OptCounters, c \in VecsI64}
    \cup {Struct("TestUdtWithFieldSorting3", "match_by_name",
                 <<<<"a", [r |-> "String", bytes |-> <<65, 108, 97>>]>>,
                   <<"b", [r |-> "i32", v |-> 1]>>,
                   <<"d", d>>, <<"e", e>>, <<"c", c>>>>) :
            d \in OptCounters, e \in OptFloats, c \in VecsI64}
    \cup {Struct(n[1], n[2], <<<<"a", a>>,
                               <<"b", b>>>>) :
            n \in {<<"MyUdt", "match_by_name">>, <<"MyUdtInOrder", "enforce_order">>},
            a \in I32s,
            b \in {NoneV, SomeV([r |-> "String", bytes |-> <<97>>])}}

\* the descriptors the structs are serialized against
StructCallTypes ==
    {UdtOf("ks", "typ", f) :
        f \in {<<>>,
               <<<<"a", Native("Text")>>, <<"b", Native("Int")>>,
                 <<"c", ListOf(Native("BigInt"))>>>>,
               <<<<"b", Native("Int")>>, <<"a", Native("Text")>>,
                 <<"c", ListOf(Native("BigInt"))>>>>,
               <<<<"a", Native("Text")>>, <<"b", Native("Int")>>,
                 <<"c", ListOf(Native("BigInt"))>>,
                 <<"d", Native("Counter")>>, <<"e", Native("Float")>>>>,
               <<<<"a", Native("Text")>>, <<"b", Native("Int")>>,
                 <<"d", Native("Counter")>>, <<"e", Native("Float")>>,
                 <<"c", ListOf(Native("BigInt"))>>>>,
               <<<<"a", Native("Text")>>, <<"b", Native("Int")>>,
                 <<"d", Native("Counter")>>,
                 <<"c", ListOf(Native("BigInt"))>>, <<"e", Native("Float")>>>>,
               <<<<"a", Native("Text")>>, <<"b", Native("Int")>>>>,
               <<<<"a", Native("Text")>>, <<"b", Native("Int")>>,
                 <<"c", Native("TinyInt")>>>>}}
    \cup {UdtOf("ks", "my_udt", f) :
            f \in {<<<<"a", Native("Int")>>, <<"b", Native("Text")>>,
                     <<"c", Native("Blob")>>>>,
                   <<<<"c", Native("Blob")>>, <<"b", Native("Text")>>,
                     <<"a", Native("Int")>>>>,
                   <<<<"a", Native("Int")>>, <<"b", Native("Text")>>>>,
                   <<<<"b", Native("Text")>>, <<"a", Native("Int")>>>>}}
    \cup {Native("Ascii"), Native("Int"), Custom("foo")}

(***************************************************************************)
(* The caller: it owns the buffer, makes a CellWriter over it and calls    *)
(* serialize; after the call it reads the result and discards the buffer.  *)
(***************************************************************************)
\* what the buffer holds before the call: nothing, or an earlier cell
InitBufs == {<<>>, to_be_bytes(-1, 4)}

NoValue == [r |-> "none"]
NoType == [t |-> "none"]
NoResult == [ok |-> FALSE, cls |-> "none"]

Init ==
    /\ buf \in InitBufs
    /\ before = buf
    /\ value = NoValue
    /\ typ = NoType
    /\ result = NoResult
    /\ pc = "idle"

\* `value.serialize(&typ, CellWriter::new(&mut buf))`
Call(v, ct) ==
    /\ before' = buf
    /\ value' = v
    /\ typ' = ct
    /\ buf' = Serialize(v, ct, buf).buf
    /\ result' = Serialize(v, ct, buf).res
    /\ pc' = "done"

SerializeNative ==
    /\ pc = "idle"
    /\ \E v \in NativeValues : \E ct \in Types : Call(v, ct)

SerializeWrapped ==
    /\ pc = "idle"
    /\ \E v \in Wrapped : \E ct \in Types : Call(v, ct)

SerializeSequence ==
    /\ pc = "idle"
    /\ \E v \in Sequences : \E ct \in CompositeCallTypes : Call(v, ct)

SerializeMap ==
    /\ pc = "idle"
    /\ \E v \in Maps : \E ct \in CompositeCallTypes : Call(v, ct)

SerializeTuple ==
    /\ pc = "idle"
    /\ \E v \in RustTuples : \E ct \in CompositeCallTypes : Call(v, ct)

SerializeCqlValue ==
    /\ pc = "idle"
    /\ \/ \E v \in CqlScalars \cup {CqlEmpty} : \E ct \in Types : Call(v, ct)
       \/ \E v \in CqlCollections \cup CqlTuples : \E ct \in CompositeCallTypes : Call(v, ct)

\* the descriptors a dynamic UDT value is serialized against
UdtCallTypes ==
    UdtTypes \cup {Native("Int"), Native("Double"), Custom("foo"),
                   ListOf(Native("Int")), TupleOf(<<Native("Int")>>)}

SerializeCqlUdt ==
    /\ pc = "idle"
    /\ \E v \in CqlUdts : \E ct \in UdtCallTypes : Call(v, ct)

SerializeLegacy ==
    /\ pc = "idle"
    /\ \E v \in ValueAdapters : \E ct \in Types : Call(v, ct)

SerializeStruct ==
    /\ pc = "idle"
    /\ \E v \in Structs : \E ct \in StructCallTypes : Call(v, ct)

\* the caller drops the buffer and starts over
Discard ==
    /\ pc = "done"
    /\ buf' \in InitBufs
    /\ before' = buf'
    /\ value' = NoValue
    /\ typ' = NoType
    /\ result' = NoResult
    /\ pc' = "idle"

Next ==
    \/ SerializeNative
    \/ SerializeWrapped
    \/ SerializeSequence
    \/ SerializeMap
    \/ SerializeTuple
    \/ SerializeCqlValue
    \/ SerializeCqlUdt
    \/ SerializeLegacy
    \/ SerializeStruct
    \/ Discard

Spec == Init /\ [][Next]_vars

(***************************************************************************)
(* Reading the buffer back.  These decode what a call left in the buffer   *)
(* by the wire format alone: a cell is a 4-byte big-endian signed length   *)
(* L, followed by L bytes when L >= 0; L = -1 is null, L = -2 is unset.    *)
(***************************************************************************)
Done == pc = "done"

\* what the call appended to the caller's buffer
Appended == SubSeq(buf, Len(before) + 1, Len(buf))

\* the bytes the buffer held before the call are still its first bytes
KeepsPrefix == Len(buf) >= Len(before) /\ SubSeq(buf, 1, Len(before)) = before

RECURSIVE SignedAcc(_, _)
SignedAcc(acc, bytes) ==
    IF bytes = <<>> THEN acc ELSE SignedAcc(acc * 256 + Head(bytes), Tail(bytes))

\* the signed big-endian number in 1..4 bytes
Signed4(bytes) ==
    SignedAcc(IF bytes[1] >= 128 THEN bytes[1] - 256 ELSE bytes[1], Tail(bytes))

\* `bytes` is a big-endian two's complement encoding of x
DecodesTo(bytes, x) ==
    LET n == Len(bytes)
        low == IF n > 4 THEN SubSeq(bytes, n - 3, n) ELSE bytes
    IN  /\ n >= 1
        /\ Signed4(low) = x
        /\ \A i \in 1..(n - 4) : bytes[i] = (IF x < 0 THEN 255 ELSE 0)

\* the length field of the cell at the head of `bytes`
CellLen(bytes) == Signed4(SubSeq(bytes, 1, 4))

\* the payload of a cell
Payload(cell) == SubSeq(cell, 5, Len(cell))

\* the size of the cell at the head of `bytes`, -1 when there is none
CellSize(bytes) ==
    IF Len(bytes) < 4 THEN -1
    ELSE IF CellLen(bytes) \in {-1, -2} THEN 4
    ELSE IF CellLen(bytes) >= 0 /\ Len(bytes) >= 4 + CellLen(bytes)
         THEN 4 + CellLen(bytes)
    ELSE -1

\* `bytes` cut into the cells that tile it
RECURSIVE SplitCells(_)
SplitCells(bytes) ==
    IF bytes = <<>> THEN [ok |-> TRUE, cells |-> <<>>]
    ELSE IF CellSize(bytes) < 0 THEN [ok |-> FALSE, cells |-> <<>>]
    ELSE LET rest == SplitCells(SubSeq(bytes, CellSize(bytes) + 1, Len(bytes)))
         IN  [ok |-> rest.ok,
              cells |-> <<SubSeq(bytes, 1, CellSize(bytes))>> \o rest.cells]

\* the sub-cells of a composite cell against descriptor ct: a list, set or
\* map payload starts with a 4-byte count, a tuple or UDT payload does not
SubCells(cell, ct) ==
    IF ct.t \in {"List", "Set", "Map"}
    THEN IF Len(Payload(cell)) < 4 THEN [ok |-> FALSE, cells |-> <<>>]
         ELSE SplitCells(SubSeq(Payload(cell), 5, Len(Payload(cell))))
    ELSE SplitCells(Payload(cell))

\* the descriptor of the i-th sub-cell
SubType(ct, i) ==
    CASE ct.t \in {"List", "Set"} -> ct.el
      [] ct.t = "Map" -> IF i % 2 = 1 THEN ct.k ELSE ct.v
      [] ct.t = "Tuple" -> ct.els[i]
      [] ct.t = "UserDefinedType" -> ct.field_types[i][2]

\* `cell` is exactly one cell and, when it holds a composite value, its
\* payload is the count header (if any) followed by well-formed sub-cells
RECURSIVE WellFormed(_, _)
WellFormed(cell, ct) ==
    /\ CellSize(cell) = Len(cell)
    /\ (CellLen(cell) >= 0 /\ ct.t \in {"List", "Set", "Map", "Tuple", "UserDefinedType"}) =>
         LET sub == SubCells(cell, ct)
             n == Len(sub.cells)
         IN  /\ sub.ok
             /\ ct.t \in {"List", "Set"} => CellLen(Payload(cell)) = n
             /\ ct.t = "Map" => 2 * CellLen(Payload(cell)) = n
             /\ ct.t = "Tuple" => n <= Len(ct.els)
             /\ ct.t = "UserDefinedType" => n <= Len(ct.field_types)
             /\ \A i \in 1..n : WellFormed(sub.cells[i], SubType(ct, i))

\* the value behind Some, MaybeUnset::Set, & and Box
RECURSIVE Core(_)
Core(v) ==
    IF v.r \in {"Some", "MaybeUnset::Set", "Ref", "Box"} THEN Core(v.inner) ELSE v

IsCompositeValue(v) ==
    \/ v.r \in {"Vec", "Slice", "HashSet", "BTreeSet", "HashMap", "BTreeMap", "Tuple"}
    \/ v.r = "CqlValue" /\ v.tag \in {"List", "Set", "Map", "Tuple", "UserDefinedType"}

(***************************************************************************)
(* C1.  Every call that returns Ok has appended exactly one cell to the    *)
(* buffer, after the bytes it held: a 4-byte length L and L payload bytes, *)
(* or a bare -1 or -2.  For a composite value the payload is the count     *)
(* header followed by framed sub-cells that tile it exactly, so the outer  *)
(* length is the size of the header plus the sub-cells, at every depth.    *)
(***************************************************************************)
C1_OneWellFormedCell ==
    (Done /\ result.ok) =>
        /\ KeepsPrefix
        /\ CellSize(Appended) = Len(Appended)
        /\ IsCompositeValue(Core(value)) => WellFormed(Appended, typ)

\* a UDT with a list field was serialized after bytes already in the buffer
C1_Witness ==
    /\ Done /\ result.ok
    /\ before # <<>>
    /\ IsCompositeValue(Core(value))
    /\ typ.t = "UserDefinedType"
    /\ \E i \in DOMAIN typ.field_types : typ.field_types[i][2].t = "List"
    /\ Len(SubCells(Appended, typ).cells) = 3
    /\ CellLen(SubCells(Appended, typ).cells[3]) > 0

(***************************************************************************)
(* The whitelist of descriptor kinds of each scalar Rust type, and what    *)
(* its payload must decode to.                                             *)
(***************************************************************************)
Whitelist(r) ==
    CASE r = "i8" -> <<"TinyInt">>
      [] r = "i16" -> <<"SmallInt">>
      [] r = "i32" -> <<"Int">>
      [] r = "i64" -> <<"BigInt">>
      [] r = "f32" -> <<"Float">>
      [] r = "f64" -> <<"Double">>
      [] r = "bool" -> <<"Boolean">>
      [] r \in {"String", "&str"} -> <<"Ascii", "Text">>
      [] r \in {"Vec<u8>", "&[u8]"} -> <<"Blob">>
      [] r = "Uuid" -> <<"Uuid", "Timeuuid">>
      [] r = "IpAddr" -> <<"Inet">>
      [] r = "Counter" -> <<"Counter">>
      [] r = "CqlDate" -> <<"Date">>
      [] r = "CqlTime" -> <<"Time">>
      [] r = "CqlTimestamp" -> <<"Timestamp">>
      [] r = "BigInt" -> <<"Varint">>
      [] r = "BigDecimal" -> <<"Decimal">>
      [] r = "CqlDuration" -> <<"Duration">>

IsScalarValue(v) == v.r \in NativeRust

InWhitelist(v, ct) == \E i \in DOMAIN Whitelist(v.r) : ct = [t |-> Whitelist(v.r)[i]]

FixedWidth(r) ==
    CASE r = "i8" -> 1
      [] r = "i16" -> 2
      [] r \in {"i32", "f32", "CqlDate"} -> 4
      [] r \in {"i64", "f64", "Counter", "CqlTime", "CqlTimestamp"} -> 8
      [] OTHER -> 0

\* the shortest two's complement encoding: no leading byte is a sign extension
Minimal(bytes) ==
    Len(bytes) >= 2 =>
        /\ ~(bytes[1] = 0 /\ bytes[2] < 128)
        /\ ~(bytes[1] = 255 /\ bytes[2] >= 128)

\* `bytes` is the encoding of v that the wire format prescribes
Encodes(bytes, v) ==
    CASE FixedWidth(v.r) > 0 -> Len(bytes) = FixedWidth(v.r) /\ DecodesTo(bytes, v.v)
      [] v.r = "bool" -> bytes = (IF v.flag THEN <<1>> ELSE <<0>>)
      [] v.r = "BigInt" -> DecodesTo(bytes, v.v) /\ Minimal(bytes)
      [] v.r = "BigDecimal" ->
            /\ Len(bytes) >= 5
            /\ Signed4(SubSeq(bytes, 1, 4)) = v.scale.m
            /\ DecodesTo(SubSeq(bytes, 5, Len(bytes)), v.v)
            /\ Minimal(SubSeq(bytes, 5, Len(bytes)))
      [] v.r = "CqlDuration" -> Len(bytes) \in 3..27
      [] OTHER -> bytes = v.bytes

\* the value has an encoding: a BigDecimal's scale is an i32
Representable(v) == v.r = "BigDecimal" => (v.scale.shift = 0 /\ v.scale.m \in -I32Max..I32Max)

(***************************************************************************)
(* C2 (as stated).  Every scalar value serialized against a descriptor of  *)
(* its whitelist succeeds and appends len_prefix(bytes(v)) ++ bytes(v).    *)
(***************************************************************************)
C2_EveryWhitelistedScalarSucceeds ==
    (Done /\ IsScalarValue(value) /\ InWhitelist(value, typ)) =>
        /\ result.ok
        /\ KeepsPrefix
        /\ Len(Appended) >= 4
        /\ CellLen(Appended) = Len(Payload(Appended))
        /\ Encodes(Payload(Appended), value)

(***************************************************************************)
(* C2 (amended).  Every scalar value that has an encoding (a BigDecimal    *)
(* whose scale fits an i32), serialized against a descriptor of its        *)
(* whitelist, succeeds and appends len_prefix(bytes(v)) ++ bytes(v):       *)
(* fixed-width big-endian for integers and floats, one byte for bool, the  *)
(* raw bytes for text and blob.  A BigDecimal whose scale does not fit an  *)
(* i32 fails with ValueOverflow although Decimal is in its whitelist.      *)
(***************************************************************************)
C2_RepresentableScalarBytes ==
    (Done /\ IsScalarValue(value) /\ InWhitelist(value, typ)) =>
        IF Representable(value)
        THEN /\ result.ok
             /\ KeepsPrefix
             /\ Len(Appended) >= 4
             /\ CellLen(Appended) = Len(Payload(Appended))
             /\ Encodes(Payload(Appended), value)
        ELSE /\ ~result.ok
             /\ result.cls = "BuiltinSerializationError"
             /\ result.kind = [k |-> "ValueOverflow"]

\* an i64 was written as 8 big-endian bytes against BigInt
C2_Witness ==
    /\ Done /\ result.ok
    /\ value.r = "i64" /\ value.v = 16909060
    /\ typ = [t |-> "BigInt"]
    /\ Appended = <<0, 0, 0, 8, 0, 0, 0, 0, 1, 2, 3, 4>>

(***************************************************************************)
(* C3.  A scalar value serialized against a descriptor that is not in its  *)
(* whitelist fails with a BuiltinTypeCheckError of kind MismatchedType     *)
(* whose `expected` is exactly the whitelist, whose `got` is the           *)
(* descriptor and whose rust_name is the value's type name; nothing is     *)
(* widened (an i32 against BigInt is rejected).                            *)
(***************************************************************************)
C3_MismatchedType ==
    (Done /\ IsScalarValue(value) /\ ~InWhitelist(value, typ)) =>
        /\ ~result.ok
        /\ result.cls = "BuiltinTypeCheckError"
        /\ result.kind.k = "MismatchedType"
        /\ result.kind.expected = [i \in DOMAIN Whitelist(value.r) |->
                                      [t |-> Whitelist(value.r)[i]]]
        /\ result.got = typ
        /\ result.rust_name = type_name(value.r)

\* an i32 was rejected against BigInt
C3_Witness ==
    /\ Done /\ ~result.ok
    /\ value.r = "i32"
    /\ typ = [t |-> "BigInt"]
    /\ result.kind = [k |-> "MismatchedType", expected |-> <<[t |-> "Int"]>>]
    /\ result.rust_name = "i32"

(***************************************************************************)
(* C4 (as stated).  Whenever the error a call returns is a type-check      *)
(* error, the buffer is what it was before the call: no byte was written   *)
(* (the dynamic tuple and UDT paths included).                             *)
(***************************************************************************)
C4_TypeCheckErrorWritesNothing ==
    (Done /\ ~result.ok /\ result.cls = "BuiltinTypeCheckError") => buf = before

IsNoSuchFieldInUdt(err) ==
    /\ err.cls = "BuiltinTypeCheckError"
    /\ err.kind.k = "UdtError"
    /\ err.kind.e.k = "NoSuchFieldInUdt"

(***************************************************************************)
(* C4 (amended).  Whenever the error a call returns is a type-check error  *)
(* other than the UDT's NoSuchFieldInUdt, the buffer is what it was before *)
(* the call.  NoSuchFieldInUdt (a field of a dynamic UDT value that the    *)
(* descriptor does not have) is found after the descriptor's fields were   *)
(* written: the buffer then keeps its old bytes, followed by the reserved  *)
(* length field of the outer cell and one sub-cell per descriptor field.   *)
(* This covers the serializers of value.rs; the serializers derived for    *)
(* structs are left out.                                                   *)
(***************************************************************************)
C4_TypeCheckErrorWritesNothingButLeftoverField ==
    (Done /\ ~result.ok /\ result.cls = "BuiltinTypeCheckError"
          /\ value.r # "Struct") =>
        IF IsNoSuchFieldInUdt(result)
        THEN /\ KeepsPrefix
             /\ Len(Appended) >= 4
             /\ SplitCells(SubSeq(Appended, 5, Len(Appended))).ok
             /\ Len(SplitCells(SubSeq(Appended, 5, Len(Appended))).cells)
                    = Len(typ.field_types)
        ELSE buf = before

\* a UDT value with a field the descriptor lacks failed after a field cell
\* was written
C4_Witness ==
    /\ Done /\ ~result.ok
    /\ IsNoSuchFieldInUdt(result)
    /\ Len(typ.field_types) >= 1
    /\ Len(buf) >= Len(before) + 12

(***************************************************************************)
(* C5.  Against every descriptor (scalar, composite or Custom) None        *)
(* succeeds and appends the null cell ff ff ff ff, and Unset and           *)
(* MaybeUnset::Unset succeed and append the unset cell ff ff ff fe; the    *)
(* descriptor is not type-checked.                                         *)
(***************************************************************************)
C5_NullAndUnsetForEveryType ==
    /\ (Done /\ value.r = "None") =>
            (result.ok /\ KeepsPrefix /\ Appended = <<255, 255, 255, 255>>)
    /\ (Done /\ value.r \in {"Unset", "MaybeUnset::Unset"}) =>
            (result.ok /\ KeepsPrefix /\ Appended = <<255, 255, 255, 254>>)

\* None was written as the null cell against a Custom descriptor
C5_Witness ==
    /\ Done /\ result.ok
    /\ value.r = "None"
    /\ typ.t = "Custom"
    /\ Appended = <<255, 255, 255, 255>>

\* no sub-cell of a composite cell, at any depth, has the length -2
RECURSIVE NoUnsetInside(_, _)
NoUnsetInside(cell, ct) ==
    (CellLen(cell) >= 0 /\ ct.t \in {"List", "Set", "Map", "Tuple", "UserDefinedType"}) =>
        \A i \in DOMAIN SubCells(cell, ct).cells :
            /\ CellLen(SubCells(cell, ct).cells[i]) # -2
            /\ NoUnsetInside(SubCells(cell, ct).cells[i], SubType(ct, i))

(***************************************************************************)
(* C6 (as stated).  No composite serialization that succeeds emits a       *)
(* sub-cell whose length field is -2 (unset) inside the payload of a       *)
(* collection, tuple or UDT.                                               *)
(***************************************************************************)
C6_NoUnsetSubCell ==
    (Done /\ result.ok /\ IsCompositeValue(Core(value))) => NoUnsetInside(Appended, typ)

(***************************************************************************)
(* C7 (as stated).  Against a Custom descriptor every value is rejected,   *)
(* and a CqlValue with CustomTypeUnsupported.                              *)
(***************************************************************************)
C7_CustomAlwaysRejected ==
    (Done /\ typ.t = "Custom") =>
        /\ ~result.ok
        /\ Core(value).r = "CqlValue" => result.kind = [k |-> "CustomTypeUnsupported"]

\* the serializers that never look at the descriptor
IgnoresType(v) == v.r \in {"None", "Unset", "MaybeUnset::Unset", "ValueAdapter"}

(***************************************************************************)
(* C7 (amended).  Against a Custom descriptor every value whose serializer *)
(* looks at the descriptor (scalars, sequences, maps, tuples and CqlValue, *)
(* also behind Some, MaybeUnset::Set, & and Box) is rejected with a        *)
(* type-check error and nothing written; a CqlValue is rejected with       *)
(* CustomTypeUnsupported before its variant is examined, Empty included.   *)
(* None, Unset and MaybeUnset::Unset succeed, and a ValueAdapter succeeds  *)
(* or fails only with the adapter's own error.                             *)
(***************************************************************************)
C7_CustomRejectedWhereChecked ==
    (Done /\ typ.t = "Custom") =>
        /\ Core(value).r \in {"None", "Unset", "MaybeUnset::Unset"} => result.ok
        /\ Core(value).r = "ValueAdapter" =>
                (result.ok \/ result.cls \in {"ValueToSerializeCqlAdapterError", "panic"})
        /\ ~IgnoresType(Core(value)) =>
                /\ ~result.ok
                /\ result.cls = "BuiltinTypeCheckError"
                /\ result.got = typ
                /\ buf = before
        /\ Core(value).r = "CqlValue" =>
                /\ result.kind = [k |-> "CustomTypeUnsupported"]
                /\ result.rust_name = "scylla_cql::frame::response::result::CqlValue"

\* CqlValue::Empty was rejected against a Custom descriptor
C7_Witness ==
    /\ Done /\ ~result.ok
    /\ typ.t = "Custom"
    /\ value.r = "CqlValue" /\ value.tag = "Empty"
    /\ result.kind = [k |-> "CustomTypeUnsupported"]

IsSequenceValue(v) ==
    \/ v.r \in {"Vec", "Slice", "HashSet", "BTreeSet"}
    \/ v.r = "CqlValue" /\ v.tag \in {"List", "Set"}

IsMapValue(v) ==
    \/ v.r \in {"HashMap", "BTreeMap"}
    \/ v.r = "CqlValue" /\ v.tag = "Map"

\* the elements the value's iterator yields, in order
Elements(v) == IF v.r = "CqlValue" THEN v.items ELSE v.elems
ElementCount(v) == Len(Elements(v)) * (2 ^ v.shift)
ElementAt(v, i) == Elements(v)[((i - 1) % Len(Elements(v))) + 1]

\* the element count is above i32::MAX
TooManyElements(v) ==
    /\ Len(Elements(v)) > 0
    /\ \/ v.shift > 30
       \/ Len(Elements(v)) > I32Max \div (2 ^ v.shift)

(***************************************************************************)
(* C8.  A sequence (Vec, slice, HashSet, BTreeSet, dynamic List or Set)    *)
(* is accepted by List(T) and by Set(T) alike, and when it succeeds the    *)
(* payload is the 4-byte big-endian count n followed by exactly n framed   *)
(* sub-cells, the elements serialized against T in iteration order; the    *)
(* outer length is the size of that payload.  [1, 2, 3] against List<Int>  *)
(* is 00 00 00 1c, 00 00 00 03, then thrice 00 00 00 04 and the i32.       *)
(***************************************************************************)
C8_SequencePayload ==
    (Done /\ IsSequenceValue(value) /\ typ.t \in {"List", "Set"}) =>
        /\ ~result.ok => result.cls # "BuiltinTypeCheckError"
        /\ result.ok =>
              /\ KeepsPrefix
              /\ CellSize(Appended) = Len(Appended)
              /\ CellLen(Appended) = Len(Payload(Appended))
              /\ Len(Payload(Appended)) >= 4
              /\ CellLen(Payload(Appended)) = ElementCount(value)
              /\ SubCells(Appended, typ).ok
              /\ Len(SubCells(Appended, typ).cells) = ElementCount(value)
              /\ \A i \in 1..ElementCount(value) :
                    SubCells(Appended, typ).cells[i]
                        = Serialize(ElementAt(value, i), typ.el, <<>>).buf
        /\ (value.r = "Vec" /\ value.elems = Vec123 /\ typ = [t |-> "List", el |-> [t |-> "Int"]]) =>
              Appended = <<0, 0, 0, 28, 0, 0, 0, 3, 0, 0, 0, 4, 0, 0, 0, 1,
                           0, 0, 0, 4, 0, 0, 0, 2, 0, 0, 0, 4, 0, 0, 0, 3>>

\* vec![1, 2, 3] was serialized against List<Int>
C8_Witness ==
    /\ Done /\ result.ok
    /\ value.r = "Vec" /\ value.elems = Vec123
    /\ typ = [t |-> "List", el |-> [t |-> "Int"]]
    /\ Len(Appended) = 32

(***************************************************************************)
(* C9.  A sequence (against List or Set) or map (against Map) whose        *)
(* element count does not fit an i32 fails with a serialization error of   *)
(* kind TooManyElements (SetOrListError, MapError), found before any       *)
(* element is serialized: neither the count header nor any element cell is *)
(* written, the buffer holds at most the reserved length field of the      *)
(* outer cell after its old bytes.                                         *)
(***************************************************************************)
C9_TooManyElements ==
    (/\ Done
     /\ \/ IsSequenceValue(value) /\ typ.t \in {"List", "Set"}
        \/ IsMapValue(value) /\ typ.t = "Map"
     /\ TooManyElements(value)) =>
        /\ ~result.ok
        /\ result.cls = "BuiltinSerializationError"
        /\ result.kind = [k |-> IF typ.t = "Map" THEN "MapError" ELSE "SetOrListError",
                          e |-> [k |-> "TooManyElements"]]
        /\ result.got = typ
        /\ result.rust_name = (IF value.r = "CqlValue"
                               THEN "scylla_cql::frame::response::result::CqlValue"
                               ELSE value.rust_name)
        /\ KeepsPrefix
        /\ Appended \in {<<>>, LenPlaceholder}

\* `&[Unset; 1 << 33]` was rejected against List<Int>
C9_Witness ==
    /\ Done /\ ~result.ok
    /\ value.r = "Slice" /\ value.shift = 33
    /\ typ = [t |-> "List", el |-> [t |-> "Int"]]
    /\ result.kind = [k |-> "SetOrListError", e |-> [k |-> "TooManyElements"]]

\* a dynamic tuple with fewer elements than the Tuple descriptor has types,
\* each element absent or acceptable to its type
IsShortTuple(v, ct) ==
    /\ v.r = "CqlValue" /\ v.tag = "Tuple"
    /\ ct.t = "Tuple"
    /\ Len(ct.els) > Len(v.items)
    /\ \A i \in DOMAIN v.items :
          \/ v.items[i].r = "None"
          \/ Serialize(v.items[i].inner, ct.els[i], <<>>).res.ok

\* the cell of the i-th element of a dynamic tuple
ElementCell(v, ct, i) ==
    IF v.items[i].r = "None" THEN <<255, 255, 255, 255>>
    ELSE Serialize(v.items[i].inner, ct.els[i], <<>>).buf

IsShortRustTuple(v, ct) ==
    /\ v.r = "Tuple"
    /\ ct.t = "Tuple"
    /\ Len(ct.els) > Len(v.els)
    /\ \A i \in DOMAIN v.els : Serialize(v.els[i], ct.els[i], <<>>).res.ok

(***************************************************************************)
(* C11.  A fixed-arity Rust tuple of k elements serialized against a Tuple *)
(* descriptor that declares n > k element types succeeds; only n < k is    *)
(* rejected with a wrong element count.                                    *)
(***************************************************************************)
C11_ShortRustTupleAccepted ==
    /\ (Done /\ IsShortRustTuple(value, typ)) => result.ok
    /\ (Done /\ value.r = "Tuple" /\ typ.t = "Tuple" /\ ~result.ok
             /\ result.cls = "BuiltinTypeCheckError"
             /\ result.kind.k = "TupleError")
          => Len(typ.els) < Len(value.els)

\* a tuple value: a fixed-arity Rust tuple or a dynamic CqlValue::Tuple
IsTupleValue(v) ==
    \/ v.r = "Tuple"
    \/ v.r = "CqlValue" /\ v.tag = "Tuple"

TupleArity(v) == IF v.r = "Tuple" THEN Len(v.els) ELSE Len(v.items)

\* the call failed its type check with this kind and wrote nothing
TypeCheckFailedWith(kind) ==
    /\ ~result.ok
    /\ result.cls = "BuiltinTypeCheckError"
    /\ result.kind = kind
    /\ result.got = typ
    /\ buf = before

(***************************************************************************)
(* C12 (as stated).  A tuple value with more elements than the Tuple       *)
(* descriptor declares fails its type check with WrongElementCount         *)
(* carrying actual = the value's count and asked_for = the descriptor's    *)
(* count; against any non-Tuple descriptor it fails with NotTuple; nothing *)
(* is written in either case.                                              *)
(***************************************************************************)
C12_TupleTypeCheck ==
    (Done /\ IsTupleValue(value)) =>
        /\ (typ.t = "Tuple" /\ TupleArity(value) > Len(typ.els))
              => TypeCheckFailedWith(
                     WrongElementCount(TupleArity(value), Len(typ.els)))
        /\ typ.t # "Tuple" => TypeCheckFailedWith(NotTuple)

(***************************************************************************)
(* C12 (amended).  As above, except that a dynamic CqlValue::Tuple against *)
(* a Custom descriptor fails with CustomTypeUnsupported instead of         *)
(* NotTuple; a Rust tuple against Custom still fails with NotTuple.        *)
(***************************************************************************)
C12_TupleTypeCheckButCustom ==
    (Done /\ IsTupleValue(value)) =>
        /\ (typ.t = "Tuple" /\ TupleArity(value) > Len(typ.els))
              => TypeCheckFailedWith(
                     WrongElementCount(TupleArity(value), Len(typ.els)))
        /\ (typ.t # "Tuple" /\ ~(value.r = "CqlValue" /\ typ.t = "Custom"))
              => TypeCheckFailedWith(NotTuple)
        /\ (value.r = "CqlValue" /\ typ.t = "Custom")
              => TypeCheckFailedWith(CustomTypeUnsupported)
        /\ ~result.ok => result.rust_name =
              (IF value.r = "Tuple" THEN value.rust_name ELSE CqlValueName)

\* a Rust tuple of three elements was rejected by Tuple<Int, Int>
C12_Witness ==
    /\ Done /\ value.r = "Tuple"
    /\ TupleArity(value) = 3 /\ typ.t = "Tuple" /\ Len(typ.els) = 2
    /\ TypeCheckFailedWith(WrongElementCount(3, 2))

IsDynUdt(v) == v.r = "CqlValue" /\ v.tag = "UserDefinedType"

\* the names a dynamic UDT value supplies, and the names a descriptor declares
ValueNames(v) == {v.fields[i][1] : i \in DOMAIN v.fields}
DeclaredNames(ct) == {ct.field_types[i][1] : i \in DOMAIN ct.field_types}

\* what the value supplies for a name: its last pair with that name, None if
\* it has no such pair
Supplied(v, name) ==
    IF name \in ValueNames(v)
    THEN v.fields[CHOOSE i \in DOMAIN v.fields :
                     /\ v.fields[i][1] = name
                     /\ \A j \in DOMAIN v.fields : v.fields[j][1] = name => j <= i][2]
    ELSE NoneV

\* the value is named like the descriptor
SameUdtName(v, ct) ==
    /\ IsDynUdt(v) /\ ct.t = "UserDefinedType"
    /\ v.keyspace = ct.keyspace /\ v.type_name = ct.type_name

\* every descriptor field is either not supplied (or supplied as None) or
\* supplied with a value its field type accepts
FieldsAcceptable(v, ct) ==
    \A i \in DOMAIN ct.field_types :
        \/ Supplied(v, ct.field_types[i][1]).r = "None"
        \/ Serialize(Supplied(v, ct.field_types[i][1]).inner,
                     ct.field_types[i][2], <<>>).res.ok

\* the cell expected for the i-th descriptor field
FieldCell(v, ct, i) ==
    IF Supplied(v, ct.field_types[i][1]).r = "None" THEN <<255, 255, 255, 255>>
    ELSE Serialize(Supplied(v, ct.field_types[i][1]).inner,
                   ct.field_types[i][2], <<>>).buf

Unconsumed(v, ct) == ValueNames(v) \ DeclaredNames(ct)

\* byte-wise order of the one-letter field names used here
LexLeq(m, n) ==
    <<m, n>> \in {<<"a", "a">>, <<"a", "b">>, <<"a", "c">>, <<"a", "d">>,
                  <<"b", "b">>, <<"b", "c">>, <<"b", "d">>,
                  <<"c", "c">>, <<"c", "d">>, <<"d", "d">>}

(***************************************************************************)
(* C14.  A dynamic UDT value named like the descriptor, whose declared     *)
(* fields all serialize, but which has at least one field name the         *)
(* descriptor does not declare, fails with the type-check error            *)
(* NoSuchFieldInUdt naming the lexicographically smallest such name,       *)
(* whatever the order of the pairs in the value.                           *)
(***************************************************************************)
C14_SmallestLeftoverFieldReported ==
    (Done /\ SameUdtName(value, typ)
          /\ FieldsAcceptable(value, typ)
          /\ Unconsumed(value, typ) # {}) =>
        /\ ~result.ok
        /\ IsNoSuchFieldInUdt(result)
        /\ result.rust_name = CqlValueName
        /\ result.got = typ
        /\ result.kind.e.field_name \in Unconsumed(value, typ)
        /\ \A n \in Unconsumed(value, typ) : LexLeq(result.kind.e.field_name, n)

\* two undeclared fields given in descending order: the smaller is reported
C14_Witness ==
    /\ Done /\ ~result.ok
    /\ SameUdtName(value, typ)
    /\ Len(value.fields) = 2
    /\ value.fields[1][1] = "c" /\ value.fields[2][1] = "b"
    /\ Unconsumed(value, typ) = {"b", "c"}
    /\ IsNoSuchFieldInUdt(result)
    /\ result.kind.e.field_name = "b"

(***************************************************************************)
(* C15 (as stated).  A dynamic UDT value serializes only against a UDT     *)
(* descriptor with the same keyspace and type name; if either name differs *)
(* the call fails with NameMismatch carrying the descriptor's keyspace and *)
(* type name, and against any non-UDT descriptor it fails with NotUdt;     *)
(* both failures leave the buffer untouched.                               *)
(***************************************************************************)
C15_UdtNameCheck ==
    (Done /\ IsDynUdt(value)) =>
        /\ result.ok => SameUdtName(value, typ)
        /\ (typ.t = "UserDefinedType" /\ ~SameUdtName(value, typ))
              => TypeCheckFailedWith(NameMismatch(typ.keyspace, typ.type_name))
        /\ typ.t # "UserDefinedType" => TypeCheckFailedWith(NotUdt)

(***************************************************************************)
(* C15 (amended).  As above, except that against a Custom descriptor the   *)
(* call fails with CustomTypeUnsupported instead of NotUdt.                *)
(***************************************************************************)
C15_UdtNameCheckButCustom ==
    (Done /\ IsDynUdt(value)) =>
        /\ result.ok => SameUdtName(value, typ)
        /\ (typ.t = "UserDefinedType" /\ ~SameUdtName(value, typ))
              => TypeCheckFailedWith(NameMismatch(typ.keyspace, typ.type_name))
        /\ typ.t \notin {"UserDefinedType", "Custom"} => TypeCheckFailedWith(NotUdt)
        /\ typ.t = "Custom" => TypeCheckFailedWith(CustomTypeUnsupported)
        /\ ~result.ok => result.rust_name = CqlValueName

\* a value of ks2.udt was rejected by the descriptor of ks.udt, whose names
\* the error carries
C15_Witness ==
    /\ Done /\ IsDynUdt(value)
    /\ value.keyspace = "ks2" /\ value.type_name = "udt"
    /\ typ.t = "UserDefinedType"
    /\ Len(value.fields) = 1 /\ Len(typ.field_types) = 1
    /\ TypeCheckFailedWith(NameMismatch("ks", "udt"))

\* the CqlValue holding the same data as a statically typed field value
RECURSIVE DynOf(_)
DynOf(x) ==
    CASE x.r = "String" -> CqlText(x.bytes)
      [] x.r = "i32" -> CqlInt(x.v)
      [] x.r = "i64" -> CqlBigInt(x.v)
      [] x.r = "Counter" -> [r |-> "CqlValue", tag |-> "Counter", v |-> x.v]
      [] x.r = "f32" -> [r |-> "CqlValue", tag |-> "Float", v |-> x.v]
      [] x.r = "Vec" ->
            CqlList("List", [i \in DOMAIN x.elems |-> DynOf(x.elems[i])], x.shift)

\* the Option<CqlValue> a dynamic UDT holds for a struct field
DynFieldOf(x) ==
    IF x.r = "None" THEN NoneV
    ELSE IF x.r = "Some" THEN SomeV(DynOf(x.inner))
    ELSE SomeV(DynOf(x))

\* the dynamic UDT value with the struct's fields, named as the descriptor
DynUdtOf(me, ct) ==
    CqlUdt(ct.keyspace, ct.type_name,
           [j \in DOMAIN me.sfields |->
               <<me.sfields[j][1], DynFieldOf(me.sfields[j][2])>>])

IsStruct(v) == v.r = "Struct"

\* the struct's field names in declaration order, the descriptor's in
\* declared order
StructOrder(me) == [j \in DOMAIN me.sfields |-> me.sfields[j][1]]
DeclaredOrder(ct) == [i \in DOMAIN ct.field_types |-> ct.field_types[i][1]]

(***************************************************************************)
(* C16.  For a struct and a UDT descriptor with the same set of field      *)
(* names, the derived serializer (match_by_name in any descriptor order,   *)
(* enforce_order when the orders agree) succeeds exactly when the dynamic  *)
(* CqlValue::UserDefinedType holding the same field values does, and then  *)
(* leaves the same bytes in the buffer.                                    *)
(***************************************************************************)
C16_DerivedEqualsDynamic ==
    (Done /\ IsStruct(value) /\ typ.t = "UserDefinedType"
          /\ struct_names(value) = DeclaredNames(typ)
          /\ (value.flavor = "enforce_order"
                 => StructOrder(value) = DeclaredOrder(typ))) =>
        /\ result.ok = Serialize(DynUdtOf(value, typ), typ, before).res.ok
        /\ result.ok => buf = Serialize(DynUdtOf(value, typ), typ, before).buf

\* a struct a, b, c serialized by name against a descriptor b, a, c
C16_Witness ==
    /\ Done /\ result.ok
    /\ IsStruct(value) /\ value.flavor = "match_by_name"
    /\ typ.t = "UserDefinedType"
    /\ StructOrder(value) = <<"a", "b", "c">>
    /\ DeclaredOrder(typ) = <<"b", "a", "c">>
    /\ struct_field(value, "a").bytes = <<65, 108, 97>>
    /\ Len(struct_field(value, "c").elems) = 3
    /\ buf = Serialize(DynUdtOf(value, typ), typ, before).buf

\* the position of the last descriptor field the struct has, 0 if it has none
LastPresent(me, ct) ==
    LET present == {i \in DOMAIN ct.field_types :
                       ct.field_types[i][1] \in struct_names(me)}
    IN  IF present = {} THEN 0
        ELSE CHOOSE i \in present : \A k \in present : k <= i

\* every field of the struct is declared and accepted by its field type
StructAcceptable(me, ct) ==
    /\ struct_names(me) \subseteq DeclaredNames(ct)
    /\ \A i \in DOMAIN ct.field_types :
          ct.field_types[i][1] \in struct_names(me)
              => Serialize(struct_field(me, ct.field_types[i][1]),
                           ct.field_types[i][2], <<>>).res.ok

\* the cell expected at the i-th descriptor field: null if the struct lacks it
StructCell(me, ct, i) ==
    IF ct.field_types[i][1] \in struct_names(me)
    THEN Serialize(struct_field(me, ct.field_types[i][1]),
                   ct.field_types[i][2], <<>>).buf
    ELSE <<255, 255, 255, 255>>

\* the descriptor without the trailing fields the struct lacks
Unextended(me, ct) ==
    [ct EXCEPT !.field_types = SubSeq(ct.field_types, 1, LastPresent(me, ct))]

\* a None field for every descriptor field from position i on that the
\* struct lacks and that comes before a field it has
RECURSIVE NoneFields(_, _, _)
NoneFields(me, ct, i) ==
    IF i >= LastPresent(me, ct) THEN <<>>
    ELSE (IF ct.field_types[i][1] \in struct_names(me) THEN <<>>
          ELSE <<<<ct.field_types[i][1], NoneV>>>>) \o NoneFields(me, ct, i + 1)

\* the struct carrying its missing middle fields as None
WithNones(me, ct) == [me EXCEPT !.sfields = @ \o NoneFields(me, ct, 1)]

(***************************************************************************)
(* C17.  In the match_by_name flavor, a descriptor field the struct lacks  *)
(* is written as a null cell when a later descriptor field is in the       *)
(* struct, and is not written at all when every descriptor field from it   *)
(* on is missing from the struct.  So the bytes are those written against  *)
(* the descriptor without its missing trailing fields, and those written   *)
(* for the struct carrying its missing middle fields as None.              *)
(***************************************************************************)
C17_MissingFieldsByName ==
    (Done /\ IsStruct(value) /\ value.flavor = "match_by_name"
          /\ typ.t = "UserDefinedType" /\ StructAcceptable(value, typ)) =>
        /\ result.ok
        /\ KeepsPrefix
        /\ SplitCells(Payload(Appended)).ok
        /\ Len(SplitCells(Payload(Appended)).cells) = LastPresent(value, typ)
        /\ \A i \in 1..LastPresent(value, typ) :
              SplitCells(Payload(Appended)).cells[i] = StructCell(value, typ, i)
        /\ buf = Serialize(value, Unextended(value, typ), before).buf
        /\ buf = Serialize(WithNones(value, typ), typ, before).buf

\* a struct a, b, c against a descriptor a, b, d, c, e: d is a null cell and
\* nothing is written for e
C17_Witness ==
    /\ Done /\ result.ok
    /\ IsStruct(value) /\ value.flavor = "match_by_name"
    /\ typ.t = "UserDefinedType"
    /\ StructOrder(value) = <<"a", "b", "c">>
    /\ DeclaredOrder(typ) = <<"a", "b", "d", "c", "e">>
    /\ Len(SplitCells(Payload(Appended)).cells) = 4
    /\ SplitCells(Payload(Appended)).cells[3] = <<255, 255, 255, 255>>
    /\ CellLen(SplitCells(Payload(Appended)).cells[4]) > 0

(***************************************************************************)
(* C18.  Serializing CqlValue::Empty succeeds exactly when the descriptor  *)
(* supports the special empty value, and then appends a cell of length 0   *)
(* with no bytes; against every other descriptor except Custom it fails    *)
(* with the type-check error NotEmptyable, whose rust_name is CqlValue and *)
(* whose got is the descriptor, and the buffer is untouched.               *)
(***************************************************************************)
C18_EmptyOnlyWhereSupported ==
    (Done /\ value = CqlEmpty) =>
        /\ result.ok <=> supports_special_empty_value(typ)
        /\ result.ok => (KeepsPrefix /\ Appended = <<0, 0, 0, 0>>)
        /\ (~supports_special_empty_value(typ) /\ typ.t # "Custom")
              => /\ TypeCheckFailedWith(NotEmptyable)
                 /\ result.rust_name = CqlValueName

\* Empty was rejected by a Counter descriptor
C18_Witness ==
    /\ Done /\ value = CqlEmpty
    /\ typ = Native("Counter")
    /\ TypeCheckFailedWith(NotEmptyable)
    /\ result.rust_name = CqlValueName

IsDynScalar(v) == v.r = "CqlValue" /\ v.tag \in NativeKinds

\* the scalar variants at the leaves of a dynamic value
RECURSIVE LeafTags(_)
LeafTags(v) ==
    IF v.tag \in {"List", "Set"}
    THEN UNION {LeafTags(v.items[i]) : i \in DOMAIN v.items}
    ELSE {v.tag}

\* a dynamic scalar, list, set or map that a statically typed Rust value
\* (T, Vec<T>, Vec<Vec<T>>, HashMap<K, V>) can hold: the elements of a list
\* are of one variant, the keys of a map are distinct
RECURSIVE HasStatic(_)
HasStatic(v) ==
    /\ v.r = "CqlValue"
    /\ CASE v.tag \in NativeKinds -> TRUE
         [] v.tag \in {"List", "Set"} ->
               /\ \A i \in DOMAIN v.items : HasStatic(v.items[i])
               /\ \A i \in DOMAIN v.items : \A j \in DOMAIN v.items :
                     v.items[i].tag = v.items[j].tag
               /\ \A i \in DOMAIN v.items : v.items[i].tag # "Map"
               /\ Cardinality(LeafTags(v)) <= 1
         [] v.tag = "Map" ->
               /\ \A i \in DOMAIN v.items :
                     IsDynScalar(v.items[i][1]) /\ IsDynScalar(v.items[i][2])
               /\ \A i \in DOMAIN v.items : \A j \in DOMAIN v.items :
                     /\ v.items[i][1].tag = v.items[j][1].tag
                     /\ v.items[i][2].tag = v.items[j][2].tag
                     /\ i # j => v.items[i][1] # v.items[j][1]
         [] OTHER -> FALSE

\* the statically typed value holding the same data
RECURSIVE StaticOf(_)
StaticOf(v) ==
    CASE v.tag \in {"List", "Set"} ->
            [r |-> "Vec", rust_name |-> "alloc::vec::Vec<T>",
             elems |-> [i \in DOMAIN v.items |-> StaticOf(v.items[i])],
             shift |-> v.shift]
      [] v.tag = "Map" ->
            [r |-> "HashMap", rust_name |-> "std::collections::hash::map::HashMap<K, V>",
             elems |-> [i \in DOMAIN v.items |->
                          <<StaticOf(v.items[i][1]), StaticOf(v.items[i][2])>>],
             shift |-> v.shift]
      [] OTHER ->
            [f \in (DOMAIN v) \ {"tag"} |->
                IF f = "r" THEN variant_type(v.tag) ELSE v[f]]

HasNestedErr(err) ==
    /\ "kind" \in DOMAIN err
    /\ "e" \in DOMAIN err.kind
    /\ "err" \in DOMAIN err.kind.e

\* an error with the rust_name blanked at every level
RECURSIVE Unnamed(_)
Unnamed(err) ==
    IF "rust_name" \notin DOMAIN err THEN err
    ELSE IF HasNestedErr(err)
    THEN [err EXCEPT !.rust_name = "", !.kind.e.err = Unnamed(err.kind.e.err)]
    ELSE [err EXCEPT !.rust_name = ""]

\* the error and every error it wraps carry the type name of CqlValue
RECURSIVE NamedCqlValue(_)
NamedCqlValue(err) ==
    /\ "rust_name" \in DOMAIN err
    /\ err.rust_name = CqlValueName
    /\ HasNestedErr(err) => NamedCqlValue(err.kind.e.err)

\* no Custom type in the descriptor, at any depth
RECURSIVE NoCustom(_)
NoCustom(ct) ==
    CASE ct.t = "Custom" -> FALSE
      [] ct.t \in {"List", "Set"} -> NoCustom(ct.el)
      [] ct.t = "Map" -> NoCustom(ct.k) /\ NoCustom(ct.v)
      [] ct.t = "Tuple" -> \A i \in DOMAIN ct.els : NoCustom(ct.els[i])
      [] ct.t = "UserDefinedType" ->
            \A i \in DOMAIN ct.field_types : NoCustom(ct.field_types[i][2])
      [] OTHER -> TRUE

\* the dynamic call ended as the call on the static value does, up to the
\* rust_name of the errors
SameAsStatic ==
    LET st == Serialize(StaticOf(value), typ, before)
    IN  /\ result.ok = st.res.ok
        /\ result.ok => buf = st.buf
        /\ ~result.ok =>
              /\ Unnamed(result) = Unnamed(st.res)
              /\ NamedCqlValue(result)

(***************************************************************************)
(* C19 (as stated).  A dynamic scalar, list, set or map serialized against *)
(* any descriptor other than Custom succeeds exactly when the statically   *)
(* typed value with the same data does, with the same bytes; when it       *)
(* fails, the error is the static one (same kind, same descriptor) except  *)
(* that its rust_name, and that of every error it wraps, is CqlValue.      *)
(***************************************************************************)
C19_DynamicAsStatic ==
    (Done /\ HasStatic(value) /\ typ.t # "Custom") => SameAsStatic

(***************************************************************************)
(* C19 (amended).  The same, for descriptors that hold no Custom type at   *)
(* any depth: against List<Custom>, a dynamic element fails with           *)
(* CustomTypeUnsupported where the static element fails with               *)
(* MismatchedType.                                                         *)
(***************************************************************************)
C19_DynamicAsStaticNoCustomInside ==
    (Done /\ HasStatic(value) /\ NoCustom(typ)) => SameAsStatic

\* a dynamic list of an Int failed against List<Text> with the element's
\* error named after CqlValue
C19_Witness ==
    /\ Done /\ ~result.ok
    /\ HasStatic(value) /\ value.tag = "List" /\ Len(value.items) = 1
    /\ typ = ListOf(Native("Text"))
    /\ result.kind.k = "SetOrListError"
    /\ result.kind.e.err.rust_name = CqlValueName
    /\ Serialize(StaticOf(value), typ, before).res.kind.e.err.rust_name = "i32"
    /\ SameAsStatic

IsAdapter(v) == v.r = "ValueAdapter"

\* the legacy serializer returned Ok and left a properly framed cell: the
\* length -1 or -2 alone, or a length n >= 0 followed by exactly n bytes
WellFormedLegacy(l) ==
    /\ l.ok
    /\ Len(l.out) >= 4
    /\ \/ l.out = <<255, 255, 255, 255>>
       \/ l.out = <<255, 255, 255, 254>>
       \/ /\ Signed4(SubSeq(l.out, 1, 4)) >= 0
          /\ Signed4(SubSeq(l.out, 1, 4)) = Len(l.out) - 4

\* values that have both contracts, each with a descriptor that accepts it
BothContracts ==
    {<<[r |-> "String", bytes |-> <<65, 108, 97>>], Native("Text")>>,
     <<[r |-> "i32", v |-> -2], Native("Int")>>,
     <<[r |-> "Vec<u8>", bytes |-> <<7>>], Native("Blob")>>,
     <<NoneV, Native("Int")>>,
     <<[r |-> "MaybeUnset::Unset"], Native("Int")>>}

(***************************************************************************)
(* C20.  The legacy adapter forwards a well-formed legacy output byte for  *)
(* byte, whatever the descriptor: what it appends to the buffer is that    *)
(* output (a value cell for a length >= 0 with exactly that many bytes,    *)
(* the null cell for -1, the unset cell for -2).  So when the legacy       *)
(* output of a value is the cell its writer-based serializer writes, the   *)
(* adapter and the writer-based serializer leave the same buffer.          *)
(***************************************************************************)
C20_LegacyForwarded ==
    (Done /\ IsAdapter(value) /\ WellFormedLegacy(value.legacy)) =>
        /\ result.ok
        /\ KeepsPrefix
        /\ Appended = value.legacy.out
        /\ \A p \in BothContracts :
              value.legacy.out = Serialize(p[1], p[2], <<>>).buf
                  => buf = Serialize(p[1], p[2], before).buf

\* the legacy output 00 00 00 03 "Ala" was forwarded against an Int descriptor
C20_Witness ==
    /\ Done /\ IsAdapter(value) /\ WellFormedLegacy(value.legacy)
    /\ typ = Native("Int")
    /\ before = <<255, 255, 255, 255>>
    /\ value.legacy.out = Serialize([r |-> "String", bytes |-> <<65, 108, 97>>],
                                    Native("Text"), <<>>).buf
    /\ result.ok
    /\ Appended = <<0, 0, 0, 3, 65, 108, 97>>

\* the declared length of a legacy output of at least 4 bytes
DeclaredLen(l) == Signed4(SubSeq(l.out, 1, 4))

(***************************************************************************)
(* C21.  Whenever the legacy output is not a properly framed cell, the     *)
(* adapter returns an adapter error and leaves the buffer untouched:       *)
(* TooBig when the legacy serializer failed, TooShort for fewer than 4     *)
(* bytes, InvalidDeclaredSize for a length below -2,                       *)
(* DeclaredVsActualSizeMismatch for a length >= 0 that is not the number   *)
(* of bytes that follow; bytes following a -1 or -2 are rejected too.      *)
(***************************************************************************)
C21_MalformedLegacyRejected ==
    (Done /\ IsAdapter(value) /\ ~WellFormedLegacy(value.legacy)) =>
        /\ ~result.ok
        /\ result.cls = "ValueToSerializeCqlAdapterError"
        /\ buf = before
        /\ ~value.legacy.ok => result.kind = [k |-> "TooBig"]
        /\ (value.legacy.ok /\ Len(value.legacy.out) < 4)
              => result.kind = [k |-> "TooShort", size |-> Len(value.legacy.out)]
        /\ (value.legacy.ok /\ Len(value.legacy.out) >= 4
                /\ DeclaredLen(value.legacy) < -2)
              => result.kind.k = "InvalidDeclaredSize"
        /\ (value.legacy.ok /\ Len(value.legacy.out) >= 4
                /\ DeclaredLen(value.legacy) >= 0)
              => result.kind = [k |-> "DeclaredVsActualSizeMismatch",
                                declared |-> DeclaredLen(value.legacy),
                                actual |-> Len(value.legacy.out) - 4]

\* Some(v), MaybeUnset::Set(v), &v (also as &dyn SerializeCql) and Box(v)
IsWrapper(v) == v.r \in {"Some", "MaybeUnset::Set", "Ref", "Box"}

(***************************************************************************)
(* C22.  A wrapper around a value is transparent: serializing Some(v),     *)
(* MaybeUnset::Set(v), &v or Box(v) against a descriptor ends exactly as   *)
(* serializing v against it does: the same buffer, and the same proof or   *)
(* the same error.                                                         *)
(***************************************************************************)
C22_WrappersTransparent ==
    (Done /\ IsWrapper(value)) =>
        /\ result = Serialize(value.inner, typ, before).res
        /\ buf = Serialize(value.inner, typ, before).buf

\* a reference to a boxed i32 failed against Text with the error of the i32
C22_Witness ==
    /\ Done /\ ~result.ok
    /\ value.r = "Ref" /\ IsWrapper(value.inner) /\ value.inner.inner.r = "i32"
    /\ typ = Native("Text")
    /\ result.rust_name = "i32"
    /\ result = Serialize(value.inner.inner, typ, before).res

\* the i-th element of the sequence fails against the element type
ElementFails(v, elt, i) == ~Serialize(ElementAt(v, i), elt, <<>>).res.ok

\* a sequence against List or Set, its count fitting an i32, with an element
\* that fails
HasFailingElement(v, ct) ==
    /\ IsSequenceValue(v) /\ ct.t \in {"List", "Set"}
    /\ ~TooManyElements(v)
    /\ \E i \in 1..ElementCount(v) : ElementFails(v, ct.el, i)

FirstFailing(v, ct) ==
    CHOOSE i \in 1..ElementCount(v) :
        /\ ElementFails(v, ct.el, i)
        /\ \A k \in 1..(i - 1) : ~ElementFails(v, ct.el, k)

\* the cells of the first n elements, one after the other
RECURSIVE ElementCells(_, _, _)
ElementCells(v, elt, n) ==
    IF n = 0 THEN <<>>
    ELSE ElementCells(v, elt, n - 1) \o Serialize(ElementAt(v, n), elt, <<>>).buf

(***************************************************************************)
(* C23.  When an element of a sequence fails against the element type of   *)
(* a List or Set descriptor, the call returns a BuiltinSerializationError  *)
(* with the container's rust_name, the whole descriptor as got, and the    *)
(* kind SetOrListError(ElementSerializationFailed) wrapping the error of   *)
(* the first failing element as it is; the elements before it have been    *)
(* written and no element after it has been serialized.                    *)
(***************************************************************************)
C23_FirstFailingElement ==
    (Done /\ HasFailingElement(value, typ)) =>
        /\ ~result.ok
        /\ result.cls = "BuiltinSerializationError"
        /\ result.rust_name =
              (IF value.r = "CqlValue" THEN CqlValueName ELSE value.rust_name)
        /\ result.got = typ
        /\ result.kind =
              SetOrListElementSerializationFailed(
                  Serialize(ElementAt(value, FirstFailing(value, typ)),
                            typ.el, <<>>).res)
        /\ KeepsPrefix
        /\ Appended = LenPlaceholder \o to_be_bytes(ElementCount(value), 4)
                        \o ElementCells(value, typ.el, FirstFailing(value, typ))

\* the second of three dynamic elements failed against List<Int>: the cell
\* of the first is in the buffer, the third was not serialized
C23_Witness ==
    /\ Done /\ HasFailingElement(value, typ)
    /\ typ = ListOf(Native("Int"))
    /\ ElementCount(value) = 3
    /\ FirstFailing(value, typ) = 2
    /\ ~ElementFails(value, typ.el, 3)
    /\ result.kind.e.err.cls = "BuiltinTypeCheckError"
    /\ Appended = <<0, 0, 0, 0, 0, 0, 0, 3, 0, 0, 0, 4, 0, 0, 0, 1>>

KeyOut(v, ct, i) == Serialize(ElementAt(v, i)[1], ct.k, <<>>)
ValueOut(v, ct, i) == Serialize(ElementAt(v, i)[2], ct.v, <<>>)

PairFails(v, ct, i) == ~KeyOut(v, ct, i).res.ok \/ ~ValueOut(v, ct, i).res.ok

\* the first pair whose key or value fails, 0 if there is none
FirstFailingPair(v, ct) ==
    IF \A i \in 1..ElementCount(v) : ~PairFails(v, ct, i) THEN 0
    ELSE CHOOSE i \in 1..ElementCount(v) :
            /\ PairFails(v, ct, i)
            /\ \A k \in 1..(i - 1) : ~PairFails(v, ct, k)

\* key cell then value cell of each of the first n pairs
RECURSIVE PairCells(_, _, _)
PairCells(v, ct, n) ==
    IF n = 0 THEN <<>>
    ELSE PairCells(v, ct, n - 1) \o KeyOut(v, ct, n).buf \o ValueOut(v, ct, n).buf

\* what serializing a map against a Map descriptor comes to
MapRule ==
    (typ.t = "Map" /\ ~TooManyElements(value)) =>
        LET f == FirstFailingPair(value, typ)
        IN  /\ f = 0 =>
                  /\ result.ok
                  /\ KeepsPrefix
                  /\ CellLen(Appended) = Len(Payload(Appended))
                  /\ Payload(Appended) = to_be_bytes(ElementCount(value), 4)
                        \o PairCells(value, typ, ElementCount(value))
            /\ f > 0 =>
                  /\ ~result.ok
                  /\ result.cls = "BuiltinSerializationError"
                  /\ result.got = typ
                  /\ result.kind =
                        (IF ~KeyOut(value, typ, f).res.ok
                         THEN KeySerializationFailed(KeyOut(value, typ, f).res)
                         ELSE ValueSerializationFailed(ValueOut(value, typ, f).res))

(***************************************************************************)
(* C24 (as stated).  A map against Map(K, V) writes the 4-byte pair count  *)
(* and then, pair by pair in iteration order, the key cell followed by the *)
(* value cell; the first failure is reported as KeySerializationFailed or  *)
(* ValueSerializationFailed wrapping the inner error, the key's when both  *)
(* key and value of the pair would fail; against any descriptor that is    *)
(* not a Map the call fails its type check with NotMap.                    *)
(***************************************************************************)
C24_MapPairs ==
    (Done /\ IsMapValue(value)) =>
        /\ MapRule
        /\ typ.t # "Map" => TypeCheckFailedWith(NotMap)

(***************************************************************************)
(* C24 (amended).  As above, except that a dynamic CqlValue::Map against a *)
(* Custom descriptor fails with CustomTypeUnsupported instead of NotMap.   *)
(***************************************************************************)
C24_MapPairsButCustom ==
    (Done /\ IsMapValue(value)) =>
        /\ MapRule
        /\ (typ.t # "Map" /\ ~(value.r = "CqlValue" /\ typ.t = "Custom"))
              => TypeCheckFailedWith(NotMap)
        /\ (value.r = "CqlValue" /\ typ.t = "Custom")
              => TypeCheckFailedWith(CustomTypeUnsupported)

\* a BTreeMap<i32, i32> against Map<Double, Double>: key and value of the
\* first pair both fail, the key's failure is reported
C24_Witness ==
    /\ Done /\ value.r = "BTreeMap"
    /\ typ = MapOf(Native("Double"), Native("Double"))
    /\ FirstFailingPair(value, typ) = 1
    /\ ~KeyOut(value, typ, 1).res.ok /\ ~ValueOut(value, typ, 1).res.ok
    /\ result.kind = KeySerializationFailed(KeyOut(value, typ, 1).res)

\* what serializing the i-th element of a tuple value against the i-th type
\* of the descriptor gives (a None of a dynamic tuple is the null cell)
TupleElemOut(v, ct, i) ==
    IF v.r = "Tuple" THEN Serialize(v.els[i], ct.els[i], <<>>)
    ELSE IF v.items[i].r = "None" THEN Ok(<<255, 255, 255, 255>>)
    ELSE Serialize(v.items[i].inner, ct.els[i], <<>>)

\* a tuple value that passes the arity check and has an element that fails
HasFailingTupleElement(v, ct) ==
    /\ IsTupleValue(v) /\ ct.t = "Tuple"
    /\ IF v.r = "Tuple" THEN TupleArity(v) = Len(ct.els)
       ELSE TupleArity(v) <= Len(ct.els)
    /\ \E i \in 1..TupleArity(v) : ~TupleElemOut(v, ct, i).res.ok

FirstFailingTupleElement(v, ct) ==
    CHOOSE i \in 1..TupleArity(v) :
        /\ ~TupleElemOut(v, ct, i).res.ok
        /\ \A k \in 1..(i - 1) : TupleElemOut(v, ct, k).res.ok

\* what the first n elements leave in the buffer, one after the other
RECURSIVE TupleCells(_, _, _)
TupleCells(v, ct, n) ==
    IF n = 0 THEN <<>>
    ELSE TupleCells(v, ct, n - 1) \o TupleElemOut(v, ct, n).buf

(***************************************************************************)
(* C25.  When an element of a tuple (Rust tuple or CqlValue::Tuple) fails  *)
(* to serialize, the call returns a BuiltinSerializationError of kind      *)
(* TupleError(ElementSerializationFailed { index, err }), index being the  *)
(* zero-based position of the first failing element and err that           *)
(* element's own error; the elements before index have been written and    *)
(* none after it has been serialized.                                      *)
(***************************************************************************)
C25_FirstFailingTupleElement ==
    (Done /\ HasFailingTupleElement(value, typ)) =>
        LET f == FirstFailingTupleElement(value, typ)
        IN  /\ ~result.ok
            /\ result.cls = "BuiltinSerializationError"
            /\ result.got = typ
            /\ result.kind =
                  TupleElementSerializationFailed(f - 1,
                      TupleElemOut(value, typ, f).res)
            /\ KeepsPrefix
            /\ Appended = LenPlaceholder \o TupleCells(value, typ, f)

\* the third element of (i32, &str, f64) failed against its type: index 2,
\* with the cells of the first two in the buffer
C25_Witness ==
    /\ Done /\ HasFailingTupleElement(value, typ)
    /\ value.r = "Tuple" /\ TupleArity(value) = 3
    /\ FirstFailingTupleElement(value, typ) = 3
    /\ result.kind.e.index = 2
    /\ result.kind.e.err.rust_name = "f64"
    /\ Len(Appended) > 12

(***************************************************************************)
(* C26.  A call only appends to the caller's buffer: after any call,       *)
(* successful or failed, the bytes the buffer held before are still its    *)
(* first bytes.  Nothing is rolled back: when an element of a sequence     *)
(* fails, what was appended before the failure (the reserved length, the   *)
(* count, the cells of the earlier elements, and what the failing element  *)
(* wrote) is still in the buffer, which is then longer than before.        *)
(***************************************************************************)
C26_AppendOnlyNoRollback ==
    Done =>
        /\ KeepsPrefix
        /\ HasFailingElement(value, typ) =>
              /\ ~result.ok
              /\ Len(buf) > Len(before)
              /\ Len(Appended) =
                    8 + Len(ElementCells(value, typ.el, FirstFailing(value, typ)))

\* the third element of a list failed: the buffer keeps its old bytes, then
\* the reserved length, the count and the cells of the first two elements
C26_Witness ==
    /\ Done /\ ~result.ok
    /\ before = <<255, 255, 255, 255>>
    /\ HasFailingElement(value, typ)
    /\ FirstFailing(value, typ) = 3
    /\ buf = <<255, 255, 255, 255, 0, 0, 0, 0, 0, 0, 0, 3,
               0, 0, 0, 4, 0, 0, 0, 1, 0, 0, 0, 4, 0, 0, 0, 1>>

DistinctNames(v) ==
    \A i \in DOMAIN v.fields : \A j \in DOMAIN v.fields :
        i # j => v.fields[i][1] # v.fields[j][1]

\* the reorderings of the pairs of a dynamic UDT value
Reorderings(v) ==
    {[v EXCEPT !.fields = [i \in DOMAIN v.fields |-> v.fields[p[i]]]] :
        p \in {q \in [DOMAIN v.fields -> DOMAIN v.fields] :
                 \A i \in DOMAIN v.fields : \E j \in DOMAIN v.fields : q[j] = i}}

(***************************************************************************)
(* C27.  For a dynamic UDT value whose field names are pairwise distinct,  *)
(* every reordering of its (name, value) pairs ends the same way against   *)
(* the same descriptor: the same buffer, and the same proof or the same    *)
(* error.                                                                  *)
(***************************************************************************)
C27_FieldOrderIrrelevant ==
    (Done /\ IsDynUdt(value) /\ DistinctNames(value)) =>
        \A w \in Reorderings(value) :
            /\ Serialize(w, typ, before).res = result
            /\ Serialize(w, typ, before).buf = buf

\* a value giving b before a was written in the descriptor's order a, b
C27_Witness ==
    /\ Done /\ result.ok
    /\ IsDynUdt(value) /\ DistinctNames(value)
    /\ Len(value.fields) = 2
    /\ value.fields[1][1] = "b" /\ value.fields[2][1] = "a"
    /\ value.fields[1][2] = SomeV(CqlText(<<97>>))
    /\ value.fields[2][2] = SomeV(CqlInt(1))
    /\ DeclaredOrder(typ) = <<"a", "b">>
    /\ Appended = <<0, 0, 0, 13, 0, 0, 0, 4, 0, 0, 0, 1, 0, 0, 0, 1, 97>>

\* the i-th descriptor field is supplied with a value its field type rejects
FieldFails(v, ct, i) ==
    /\ Supplied(v, ct.field_types[i][1]).r # "None"
    /\ ~Serialize(Supplied(v, ct.field_types[i][1]).inner,
                  ct.field_types[i][2], <<>>).res.ok

FirstFailingField(v, ct) ==
    CHOOSE i \in DOMAIN ct.field_types :
        /\ FieldFails(v, ct, i)
        /\ \A j \in 1..(i - 1) : ~FieldFails(v, ct, j)

\* the call failed with a UDT error of this class and this kind tag
UdtErrorOf(cls, k) ==
    /\ ~result.ok
    /\ result.cls = cls
    /\ result.got = typ
    /\ result.kind.k = "UdtError"
    /\ result.kind.e.k = k

(***************************************************************************)
(* C28.  serialize_udt applies its checks in a fixed order.  For a dynamic *)
(* UDT value (the Custom descriptor is turned away before serialize_udt is *)
(* entered): a descriptor that is not a UDT gives NotUdt; otherwise a      *)
(* differing keyspace or type name gives NameMismatch, whatever the fields *)
(* are; otherwise the first descriptor field, in declared order, whose     *)
(* supplied value fails gives the serialization error                      *)
(* FieldSerializationFailed naming that field, also when the value has a   *)
(* field the descriptor does not declare; only when no descriptor field    *)
(* fails does an undeclared field give NoSuchFieldInUdt.                   *)
(***************************************************************************)
C28_UdtCheckOrder ==
    (Done /\ IsDynUdt(value) /\ typ.t # "Custom") =>
        IF typ.t # "UserDefinedType"
        THEN UdtErrorOf("BuiltinTypeCheckError", "NotUdt")
        ELSE IF ~SameUdtName(value, typ)
        THEN UdtErrorOf("BuiltinTypeCheckError", "NameMismatch")
        ELSE IF ~FieldsAcceptable(value, typ)
        THEN /\ UdtErrorOf("BuiltinSerializationError", "FieldSerializationFailed")
             /\ result.kind.e.field_name =
                    typ.field_types[FirstFailingField(value, typ)][1]
             /\ ~result.kind.e.err.ok
        ELSE IF Unconsumed(value, typ) # {}
        THEN UdtErrorOf("BuiltinTypeCheckError", "NoSuchFieldInUdt")
        ELSE result.ok

\* a text for the Int field a, and a field b the descriptor does not
\* declare: the failure of a is what is reported
C28_Witness ==
    /\ Done
    /\ SameUdtName(value, typ)
    /\ DeclaredOrder(typ) = <<"a">>
    /\ Supplied(value, "a") = SomeV(CqlText(<<97>>))
    /\ Unconsumed(value, typ) = {"b"}
    /\ UdtErrorOf("BuiltinSerializationError", "FieldSerializationFailed")
    /\ result.kind.e.field_name = "a"

\* the value gives some field name more than once
HasDuplicateName(v) == ~DistinctNames(v)

\* the value without its pairs that are followed by a pair of the same name
LastPairs(v) ==
    [v EXCEPT !.fields =
        LET keep(i) == \A j \in DOMAIN v.fields :
                           v.fields[j][1] = v.fields[i][1] => j <= i
            F[i \in 0..Len(v.fields)] ==
                IF i = 0 THEN <<>>
                ELSE IF keep(i) THEN Append(F[i - 1], v.fields[i]) ELSE F[i - 1]
        IN  F[Len(v.fields)]]

(***************************************************************************)
(* C29.  A dynamic UDT value that gives a field name more than once is not *)
(* rejected for it: the call ends exactly as it does for the value with    *)
(* only the last pair of each name, so an earlier pair is neither written  *)
(* nor type-checked; and when the call succeeds each descriptor field has  *)
(* exactly one sub-cell, holding the value of the last pair of its name    *)
(* or null when that pair is None.                                         *)
(***************************************************************************)
C29_LastDuplicateWins ==
    (Done /\ IsDynUdt(value) /\ HasDuplicateName(value)) =>
        /\ Serialize(LastPairs(value), typ, before).res = result
        /\ Serialize(LastPairs(value), typ, before).buf = buf
        /\ (SameUdtName(value, typ)
              /\ ValueNames(value) \subseteq DeclaredNames(typ)
              /\ FieldsAcceptable(value, typ)) =>
                 /\ result.ok
                 /\ SplitCells(Payload(Appended)).ok
                 /\ Len(SplitCells(Payload(Appended)).cells) = Len(typ.field_types)
                 /\ \A i \in DOMAIN typ.field_types :
                       SplitCells(Payload(Appended)).cells[i] =
                           FieldCell(value, typ, i)

\* a is given twice: first as a text the Int field a would reject, then as
\* the Int 1 that is written
C29_Witness ==
    /\ Done /\ result.ok
    /\ SameUdtName(value, typ)
    /\ DeclaredOrder(typ) = <<"a">>
    /\ Len(value.fields) = 2
    /\ value.fields[1] = <<"a", SomeV(CqlText(<<97>>))>>
    /\ value.fields[2] = <<"a", SomeV(CqlInt(1))>>
    /\ Appended = <<0, 0, 0, 8, 0, 0, 0, 4, 0, 0, 0, 1>>

\* the Rust types whose impl unwraps the result of set_value
UnwrapsCellWrite ==
    {v.r : v \in NativeValues} \ (MapsOverflow \cup {"BigDecimal"})

\* the classes of the error values serialize returns
ErrorClasses ==
    {"BuiltinTypeCheckError", "BuiltinSerializationError",
     "ValueToSerializeCqlAdapterError"}

(***************************************************************************)
(* C30.  Every call of serialize returns a completion proof or an error    *)
(* value and never aborts.  Where the impl unwraps a cell write the        *)
(* payload is small: at most 27 bytes for the scalars that unwrap          *)
(* set_value, and for a legacy value exactly the non-negative length its   *)
(* output declares.                                                        *)
(***************************************************************************)
C30_NeverAborts ==
    Done =>
        /\ ~IsPanic(result)
        /\ result.ok \/ result.cls \in ErrorClasses
        /\ (result.ok /\ value.r \in UnwrapsCellWrite) =>
              /\ CellLen(Appended) >= 0
              /\ CellLen(Appended) <= 27
              /\ Len(Appended) = 4 + CellLen(Appended)
        /\ (result.ok /\ IsAdapter(value) /\ Len(Appended) > 4) =>
              /\ CellLen(Appended) = Signed4(SubSeq(value.legacy.out, 1, 4))
              /\ CellLen(Appended) = Len(value.legacy.out) - 4
              /\ CellLen(Appended) <= I32Max

\* a legacy value whose output declares one byte and holds one byte: the
\* unwrapped cell write succeeds
C30_Witness ==
    /\ Done /\ result.ok
    /\ IsAdapter(value)
    /\ value.legacy.out = <<0, 0, 0, 1, 7>>
    /\ Appended = <<0, 0, 0, 1, 7>>
====
